---- MODULE Spec2Model ----
(***************************************************************************)
(* Model of the echo-app server Manager (internal/server/manager.go).      *)
(*                                                                         *)
(* The Manager owns an ordered sequence of listeners, starts each of them  *)
(* in its own goroutine and runs a deadline-bounded, error-aggregating     *)
(* shutdown.  The listeners are reached only through the Server interface  *)
(* {Start, Shutdown, Name}; what a listener does inside Start and Shutdown *)
(* is the environment of the Manager and is modelled by nondeterministic   *)
(* steps: a listener's Start or Shutdown may return at any moment, with    *)
(* any of its possible results, or never.                                  *)
(*                                                                         *)
(* Goroutines of the model:                                                *)
(*   - the caller of RegisterServer / Manager.Start (the main goroutine),  *)
(*   - one start task per dispatched listener (manager.go:48-54),          *)
(*   - every caller of Manager.Shutdown (one per element of Calls),        *)
(*   - one shutdown task per listener and Shutdown call (manager.go:74-79),*)
(*   - the goroutine that waits on m.wg and closes done (manager.go:94-97),*)
(*   - a caller of Manager.Wait.                                           *)
(* An unrecovered panic in any goroutine ends the whole process: no action *)
(* is enabled once panicked is TRUE.                                       *)
(***************************************************************************)
EXTENDS Naturals, Sequences, FiniteSets, TLC

\* Largest number of listeners registered with the Manager.
MaxServers == 2

\* Number of Manager.Shutdown calls the callers may make.
MaxShutdownCalls == 2

Listeners == 1..MaxServers

Calls == 1..MaxShutdownCalls

\* The listeners' names, in the order main registers them.
ServerNames == <<"HTTP", "TLS", "TCP", "gRPC", "QUIC", "Metrics">>

Name(i) == ServerNames[i]

\* What a listener's Start can return: nil, http.ErrServerClosed, or another
\* error (a bind failure, a serve error, ctx.Err()).
StartResults == {"nil", "ErrServerClosed", "bind"}

\* What a listener's Shutdown can return: nil or an error.
ShutdownResults == {"nil", "serr"}

VARIABLES
    servers,        \* m.servers: the sequence of registered listeners
    wg,             \* m.wg: the counter of the start-task waitgroup
    shutdown,       \* m.shutdown: TRUE once the channel is closed
    panicked,       \* the process died of an unrecovered panic
    startPc,        \* Manager.Start: "idle", "loop", "returned"
    startIdx,       \* Manager.Start: position of its range loop
    startRet,       \* Manager.Start: the value it returned ("none" before)
    task,           \* start task of each listener
    dispatched,     \* number of start tasks spawned for each listener
    startCalled,    \* number of calls of each listener's Start
    startErr,       \* what each listener's Start returned ("none" before)
    logged,         \* listeners whose Start error the start task logged
    shutdownCalled, \* number of calls of each listener's Shutdown
    shPc,           \* Manager.Shutdown, per call: position
    shIdx,          \* Manager.Shutdown, per call: position of its range loop
    ctxDone,        \* per call: the derived context's deadline has expired
    late,           \* per call: the deadline expired with work outstanding
    shutdownWg,     \* per call: counter of the local shutdownWg
    errors,         \* per call: content of the buffered errors channel
    errorsClosed,   \* per call: the errors channel is closed
    errs,           \* per call: the errors drained from the channel
    shTask,         \* per call and listener: the shutdown task
    shRet,          \* per call and listener: what the listener's Shutdown returned
    doneTask,       \* per call: the goroutine waiting on m.wg
    done,           \* per call: TRUE once the done channel is closed
    result,         \* per call: what Manager.Shutdown returned
    waitPc          \* Manager.Wait: "idle", "waiting", "returned"

mgrVars == <<servers, wg, shutdown, panicked>>

startVars == <<startPc, startIdx, startRet, task, dispatched, startCalled,
               startErr, logged>>

shVars == <<shutdownCalled, shPc, shIdx, ctxDone, late, shutdownWg, errors,
            errorsClosed, errs, shTask, shRet, doneTask, done, result>>

----------------------------------------------------------------------------
\* The TCP listener (internal/server/tcp_server.go)

\* Number of clients that may dial the TCP listener.
MaxConns == 2

\* Stand-in for maxTCPConnections (1000 in tcp_server.go:18), scaled down so
\* that the clients can reach the limit.
maxTCPConnections == 1

Conns == 1..MaxConns

VARIABLES
    tcpCtx,          \* the ctx handed to Start is cancelled
    socket,          \* the listening socket: "none", "open", "closed"
    tcpListener,     \* s.listener is set (TRUE) or nil (FALSE)
    acceptPc,        \* TCPServer.Start: position
    tcpStartRet,     \* TCPServer.Start: the value it returned ("none" before)
    accepted,        \* the connection the accept loop holds (0: none)
    fullAtAccept,    \* history: s.activeConns was at the limit when Accept
                     \*          returned that connection
    tcpMu,           \* s.mu: "free", or "start" while the accept loop holds it
    tcpShuttingDown, \* s.shuttingDown: 0 or 1
    tcpShutdown,     \* s.shutdown: TRUE once the channel is closed
    tcpWg,           \* s.wg: the counter of the handler waitgroup
    tcpActiveConns,  \* s.activeConns
    tcpConnections,  \* s.connections: the connections in the map
    conn,            \* per connection: "idle", "held", "refused", "rejected",
                     \*                 "dispatched"
    handler,         \* per connection: position of its handler goroutine
    closes,          \* per connection: number of Close calls on it
    gauge,           \* the active-connections gauge of listener "TCP"
    tcpShutdownOnce, \* s.shutdownOnce: "new", "running", "done"
    tsPc,            \* TCPServer.Shutdown, per call: position
    tsCtx,           \* per call: the ctx handed to Shutdown is done
    tsLate,          \* history, per call: a handler was outstanding when
                     \*          ctx became done
    tsErr,           \* per call: the local variable err
    tsRet,           \* per call: the value returned ("none" before)
    tsListener,      \* the once body: its local copy of s.listener
    tcpDoneTask,     \* the goroutine of the once body that waits on s.wg
    tcpDone          \* the once body: TRUE once the done channel is closed

tcpStartVars == <<tcpCtx, socket, tcpListener, acceptPc, tcpStartRet, accepted,
                  fullAtAccept>>

tcpSharedVars == <<tcpMu, tcpShuttingDown, tcpShutdown, tcpWg, tcpActiveConns,
                   tcpConnections>>

tcpConnVars == <<conn, handler, closes, gauge>>

tcpShVars == <<tcpShutdownOnce, tsPc, tsCtx, tsLate, tsErr, tsRet, tsListener,
               tcpDoneTask, tcpDone>>

tcpVars == <<tcpStartVars, tcpSharedVars, tcpConnVars, tcpShVars>>

\* The values of TCPServer.Shutdown's err: nil, the listener's Close error,
\* or the timeout error that carries the number of active connections.
TcpNone == [kind |-> "none", n |-> 0]

TcpNil == [kind |-> "nil", n |-> 0]

TcpCloseErr == [kind |-> "close", n |-> 0]

TcpTimeout(n) == [kind |-> "timeout", n |-> n]

\* NewTCPServer: no listener, an empty map, an open shutdown channel.
TCPInit ==
    /\ tcpCtx = FALSE
    /\ socket = "none"
    /\ tcpListener = FALSE
    /\ acceptPc = "idle"
    /\ tcpStartRet = "none"
    /\ accepted = 0
    /\ fullAtAccept = FALSE
    /\ tcpMu = "free"
    /\ tcpShuttingDown = 0
    /\ tcpShutdown = FALSE
    /\ tcpWg = 0
    /\ tcpActiveConns = 0
    /\ tcpConnections = {}
    /\ conn = [k \in Conns |-> "idle"]
    /\ handler = [k \in Conns |-> "none"]
    /\ closes = [k \in Conns |-> 0]
    /\ gauge = 0
    /\ tcpShutdownOnce = "new"
    /\ tsPc = [c \in Calls |-> "idle"]
    /\ tsCtx = [c \in Calls |-> FALSE]
    /\ tsLate = [c \in Calls |-> FALSE]
    /\ tsErr = [c \in Calls |-> TcpNil]
    /\ tsRet = [c \in Calls |-> TcpNone]
    /\ tsListener = FALSE
    /\ tcpDoneTask = "none"
    /\ tcpDone = FALSE

----------------------------------------------------------------------------
\* The HTTP and TLS listeners (internal/server/http_server.go)

\* Number of requests the clients of the HTTP listener may send.
MaxReqs == 2

\* Stand-in for maxHTTPConnections (1000 in http_server.go:17), scaled down
\* so that the requests can reach the limit.
maxHTTPConnections == 1

Reqs == 1..MaxReqs

VARIABLES
    httpCtx,         \* the ctx handed to Start is cancelled
    httpServer,      \* s.server is set (TRUE) or nil (FALSE)
    inShutdown,      \* the http.Server has been told to shut down
    httpSocket,      \* the listening socket: "none", "open", "closed"
    httpPc,          \* HTTPServer.Start: position
    httpStartRet,    \* HTTPServer.Start: the value it returned
    httpActiveConns, \* s.activeConns
    req,             \* per request: position in the middleware and handler
    currentConns,    \* per request: the middleware's local currentConns
    hsPc,            \* HTTPServer.Shutdown, per call: position
    hsCtx,           \* per call: the ctx handed to Shutdown is done
    hsRet            \* per call: the value returned ("none" before)

httpStartVars == <<httpCtx, httpServer, inShutdown, httpSocket, httpPc,
                   httpStartRet>>

httpReqVars == <<httpActiveConns, req, currentConns>>

httpShVars == <<hsPc, hsCtx, hsRet>>

httpVars == <<httpStartVars, httpReqVars, httpShVars>>

\* NewHTTPServer: no http.Server yet, a zero counter.
HTTPInit ==
    /\ httpCtx = FALSE
    /\ httpServer = FALSE
    /\ inShutdown = FALSE
    /\ httpSocket = "none"
    /\ httpPc = "idle"
    /\ httpStartRet = "none"
    /\ httpActiveConns = 0
    /\ req = [r \in Reqs |-> "idle"]
    /\ currentConns = [r \in Reqs |-> 0]
    /\ hsPc = [c \in Calls |-> "idle"]
    /\ hsCtx = [c \in Calls |-> FALSE]
    /\ hsRet = [c \in Calls |-> "none"]

----------------------------------------------------------------------------
\* The gRPC listener (GRPCServer, internal/server/quic_server.go:100-181)

\* Number of RPCs that may be in flight at once.
MaxRpcs == 1

VARIABLES
    grpcCtx,         \* the ctx handed to Start is cancelled
    grpcPc,          \* GRPCServer.Start: position
    grpcStartRet,    \* GRPCServer.Start: the value it returned
    grpcSrv,         \* s.server: "nil", "new", "serving", "draining", "stopped"
    grpcServe,       \* the task running Serve: "none", "start", "serving",
                     \*   or the value it sent on errCh: "nil", "err"
    grpcRpcs,        \* number of RPCs in flight
    gsPc,            \* GRPCServer.Shutdown, per call: position
    gsCtx,           \* per call: the ctx handed to Shutdown is done
    gsTask,          \* per call: the task running GracefulStop: "none",
                     \*   "begin", "wait", "closed" (stopped is closed)
    gsFirst,         \* history, per call: what happened first, the graceful
                     \*   stop completing ("stopped") or ctx done ("ctx")
    gsRet            \* per call: the value returned ("none" before)

grpcStartVars == <<grpcCtx, grpcPc, grpcStartRet, grpcServe>>

grpcShVars == <<gsPc, gsCtx, gsTask, gsFirst, gsRet>>

grpcVars == <<grpcStartVars, grpcSrv, grpcRpcs, grpcShVars>>

\* NewGRPCServer: no grpc.Server yet.
GRPCInit ==
    /\ grpcCtx = FALSE
    /\ grpcPc = "idle"
    /\ grpcStartRet = "none"
    /\ grpcSrv = "nil"
    /\ grpcServe = "none"
    /\ grpcRpcs = 0
    /\ gsPc = [c \in Calls |-> "idle"]
    /\ gsCtx = [c \in Calls |-> FALSE]
    /\ gsTask = [c \in Calls |-> "none"]
    /\ gsFirst = [c \in Calls |-> "none"]
    /\ gsRet = [c \in Calls |-> "none"]

----------------------------------------------------------------------------
\* The TCP handler, one invocation per connection (internal/handlers/tcp.go)

\* Number of invocations of TCPHandler, each on a connection of its own.
MaxInvocations == 2

Invocations == 1..MaxInvocations

VARIABLES
    thPc,            \* per invocation: position in TCPHandler
    thOps,           \* per invocation: the calls it made on conn, in order
    thForced,        \* per invocation: the connection was closed from outside
    thWire,          \* per invocation: JSON documents that reached the client
    thError,         \* per invocation: the error label it recorded
                     \*   ("panicking" while a panic unwinds)
    thGauge          \* the active-connections gauge of listener "TCP"

thVars == <<thPc, thOps, thForced, thWire, thError, thGauge>>

\* No invocation has begun.
THInit ==
    /\ thPc = [k \in Invocations |-> "idle"]
    /\ thOps = [k \in Invocations |-> <<>>]
    /\ thForced = [k \in Invocations |-> FALSE]
    /\ thWire = [k \in Invocations |-> 0]
    /\ thError = [k \in Invocations |-> "none"]
    /\ thGauge = 0

----------------------------------------------------------------------------
\* The base response and its source IP (NewBaseResponse and extractIP)

\* Longest remote address handed to NewBaseResponse.
MaxAddrLen == 7

\* The characters of a remote address: a character of a host or port, and
\* the three that net.SplitHostPort looks for.
AddrChars == {"a", ":", "[", "]"}

VARIABLES
    baseResponse     \* the response built last: the remoteAddr it was built
                     \*   from and its SourceIP field

respVars == <<baseResponse>>

\* No response has been built.
RespInit ==
    baseResponse = [built |-> FALSE, remoteAddr |-> <<>>, SourceIP |-> <<>>]

----------------------------------------------------------------------------
\* Configuration loading (config.Load, internal/config/config.go)

\* Longest value of ECHO_APP_MESSAGE handed to Load, in bytes.
MaxEnvLen == 1030

\* The limit on the message that the tests of Load name.
MaxMessageLength == 1024

\* Values of ECHO_APP_LOG_LEVEL: two that logrus.ParseLevel knows, one it
\* does not.
EnvLogLevels == {"info", "debug", "verbose"}

VARIABLES
    loaded,          \* what Load returned: the Config (its Message, by its
                     \*   length, and LogLevel) or nil, and the error
    logrusLevel      \* the level of the global logger

cfgVars == <<loaded, logrusLevel>>

NoConfig == [called |-> FALSE, env |-> 0, cfg |-> "nil", Message |-> 0,
             LogLevel |-> "none", err |-> "nil"]

\* Load has not been called; logrus starts at the info level.
CfgInit ==
    /\ loaded = NoConfig
    /\ logrusLevel = "info"

----------------------------------------------------------------------------
\* The cached self-signed certificate (handlers.GetTLSConfig,
\* src/internal/server/metrics_server_test.go:330-359)

\* Number of GetTLSConfig calls (the TLS and QUIC listeners, and more).
MaxTlsCalls == 4

TlsCalls == 1..MaxTlsCalls

VARIABLES
    tlsCert,         \* the package variable tlsCert: 0 is the zero value, n
                     \*   the material of the n-th generation
    tlsCertOnce,     \* tlsCertOnce: "new", "running", "done"
    tlsCertErr,      \* tlsCertErr is not nil
    generated,       \* history: number of utils.GenerateSelfSignedCert calls
    gtPc,            \* GetTLSConfig, per call: position
    gtRet            \* per call: the value returned

tlsVars == <<tlsCert, tlsCertOnce, tlsCertErr, generated, gtPc, gtRet>>

NoTlsConfig == [cfg |-> "none", cert |-> 0, MinVersion |-> "none",
                err |-> FALSE]

\* Package initialisation: zero values.
TlsInit ==
    /\ tlsCert = 0
    /\ tlsCertOnce = "new"
    /\ tlsCertErr = FALSE
    /\ generated = 0
    /\ gtPc = [c \in TlsCalls |-> "idle"]
    /\ gtRet = [c \in TlsCalls |-> NoTlsConfig]

\* The variables of the components other than the Manager and the TCP and
\* HTTP listeners.
auxVars == <<grpcVars, thVars, respVars, cfgVars, tlsVars>>

AuxInit == GRPCInit /\ THInit /\ RespInit /\ CfgInit /\ TlsInit

\* The variables of the listeners, which no Manager step touches.
lsnVars == <<tcpVars, httpVars, auxVars>>

----------------------------------------------------------------------------
\* The Manager

vars == <<mgrVars, startVars, shVars, waitPc, lsnVars>>

NoResult == [kind |-> "none", errs |-> <<>>]

\* NewManager: no listener, an open shutdown channel, a zero waitgroup.
Init ==
    /\ servers = <<>>
    /\ wg = 0
    /\ shutdown = FALSE
    /\ panicked = FALSE
    /\ startPc = "idle"
    /\ startIdx = 1
    /\ startRet = "none"
    /\ task = [i \in Listeners |-> "none"]
    /\ dispatched = [i \in Listeners |-> 0]
    /\ startCalled = [i \in Listeners |-> 0]
    /\ startErr = [i \in Listeners |-> "none"]
    /\ logged = {}
    /\ shutdownCalled = [i \in Listeners |-> 0]
    /\ shPc = [c \in Calls |-> "idle"]
    /\ shIdx = [c \in Calls |-> 1]
    /\ ctxDone = [c \in Calls |-> FALSE]
    /\ late = [c \in Calls |-> FALSE]
    /\ shutdownWg = [c \in Calls |-> 0]
    /\ errors = [c \in Calls |-> <<>>]
    /\ errorsClosed = [c \in Calls |-> FALSE]
    /\ errs = [c \in Calls |-> <<>>]
    /\ shTask = [c \in Calls |-> [i \in Listeners |-> "none"]]
    /\ shRet = [c \in Calls |-> [i \in Listeners |-> "none"]]
    /\ doneTask = [c \in Calls |-> "none"]
    /\ done = [c \in Calls |-> FALSE]
    /\ result = [c \in Calls |-> NoResult]
    /\ waitPc = "idle"
    /\ TCPInit
    /\ HTTPInit
    /\ AuxInit

\* No Manager.Shutdown call has been made yet.
NoShutdownYet == \A c \in Calls : shPc[c] = "idle"

----------------------------------------------------------------------------
\* RegisterServer and Manager.Start

\* RegisterServer appends a listener; it is called before Start, Shutdown
\* and Wait.
RegisterServer ==
    /\ ~panicked
    /\ UNCHANGED lsnVars
    /\ startPc = "idle" /\ NoShutdownYet /\ waitPc = "idle"
    /\ Len(servers) < MaxServers
    /\ servers' = Append(servers, Len(servers) + 1)
    /\ UNCHANGED <<wg, shutdown, panicked, startVars, shVars, waitPc>>

\* The caller enters Manager.Start.
ManagerStartCall ==
    /\ ~panicked
    /\ UNCHANGED lsnVars
    /\ startPc = "idle" /\ NoShutdownYet /\ waitPc = "idle"
    /\ startPc' = "loop"
    /\ startIdx' = 1
    /\ UNCHANGED <<mgrVars, startRet, task, dispatched, startCalled, startErr,
                   logged, shVars, waitPc>>

\* A range loop that steps over every second listener.
StartRangeSkip(i) == i + 2

\* The step of `for _, srv := range m.servers` in Manager.Start.
StartRangeNext(i) == i + 1

\* One iteration of Start's loop: m.wg.Add(1) and `go func()`.
ManagerStartLoop ==
    /\ ~panicked
    /\ UNCHANGED lsnVars
    /\ startPc = "loop"
    /\ startIdx <= Len(servers)
    /\ LET srv == servers[startIdx] IN
        /\ wg' = wg + 1
        /\ task' = [task EXCEPT ![srv] = "spawned"]
        /\ dispatched' = [dispatched EXCEPT ![srv] = @ + 1]
    /\ startIdx' = StartRangeNext(startIdx)
    /\ UNCHANGED <<servers, shutdown, panicked, startPc, startRet, startCalled,
                   startErr, logged, shVars, waitPc>>

\* The loop is over: Start returns nil.
ManagerStartReturn ==
    /\ ~panicked
    /\ UNCHANGED lsnVars
    /\ startPc = "loop"
    /\ startIdx > Len(servers)
    /\ startPc' = "returned"
    /\ startRet' = "nil"
    /\ UNCHANGED <<mgrVars, startIdx, task, dispatched, startCalled, startErr,
                   logged, shVars, waitPc>>

\* A start task calls srv.Start(ctx).
TaskCallStart(i) ==
    /\ ~panicked
    /\ UNCHANGED lsnVars
    /\ task[i] = "spawned"
    /\ task' = [task EXCEPT ![i] = "running"]
    /\ startCalled' = [startCalled EXCEPT ![i] = @ + 1]
    /\ UNCHANGED <<mgrVars, startPc, startIdx, startRet, dispatched, startErr,
                   logged, shVars, waitPc>>

\* The error test without the exemption of http.ErrServerClosed.
IsStartErrorNoSentinel(e) == e # "nil"

\* `err != nil && err != http.ErrServerClosed`
IsStartError(e) == e # "nil" /\ e # "ErrServerClosed"

\* What the start task does with the error of srv.Start: it logs it, and
\* nothing else.
LogStartError(i, e) == IF IsStartError(e) THEN logged \cup {i} ELSE logged

\* The listener's Start returns e (the listener decides when and what); the
\* start task logs an error and runs its deferred m.wg.Done().
TaskReturn(i, e) ==
    /\ ~panicked
    /\ UNCHANGED lsnVars
    /\ task[i] = "running"
    /\ startErr' = [startErr EXCEPT ![i] = e]
    /\ logged' = LogStartError(i, e)
    /\ wg' = wg - 1
    /\ task' = [task EXCEPT ![i] = "done"]
    /\ UNCHANGED <<servers, shutdown, panicked, startPc, startIdx, startRet,
                   dispatched, startCalled, shVars, waitPc>>

----------------------------------------------------------------------------
\* Manager.Shutdown

\* A caller enters Manager.Shutdown(timeout): close(m.shutdown), which panics
\* when the channel is already closed, then context.WithTimeout.  The calls
\* are numbered in the order in which they reach close(m.shutdown); a later
\* call may come while an earlier one is running or after it has returned.
ShutdownCall(c) ==
    /\ ~panicked
    /\ UNCHANGED lsnVars
    /\ shPc[c] = "idle"
    /\ \A d \in Calls : d < c => shPc[d] # "idle"
    /\ startPc # "loop"
    /\ IF shutdown
       THEN /\ panicked' = TRUE
            /\ shPc' = [shPc EXCEPT ![c] = "panicked"]
            /\ UNCHANGED <<shutdown, shIdx, ctxDone>>
       ELSE /\ shutdown' = TRUE
            /\ shPc' = [shPc EXCEPT ![c] = "loop"]
            /\ shIdx' = [shIdx EXCEPT ![c] = 1]
            /\ ctxDone' = [ctxDone EXCEPT ![c] = FALSE]
            /\ UNCHANGED panicked
    /\ UNCHANGED <<servers, wg, startVars, shutdownCalled, late, shutdownWg,
                   errors, errorsClosed, errs, shTask, shRet, doneTask, done,
                   result, waitPc>>

\* Work of call c that is not finished: a shutdown task that has not ended,
\* or a start task that has not returned.
Outstanding(c) ==
    \E i \in 1..Len(servers) :
        shTask[c][i] # "done" \/ task[i] \notin {"none", "done"}

\* The deadline of the derived context passes (time is the environment's).
DeadlineExpires(c) ==
    /\ ~panicked
    /\ UNCHANGED lsnVars
    /\ shPc[c] \in {"loop", "wait", "select"}
    /\ ~ctxDone[c]
    /\ ctxDone' = [ctxDone EXCEPT ![c] = TRUE]
    /\ late' = [late EXCEPT ![c] = Outstanding(c)]
    /\ UNCHANGED <<mgrVars, startVars, shutdownCalled, shPc, shIdx, shutdownWg,
                   errors, errorsClosed, errs, shTask, shRet, doneTask, done,
                   result, waitPc>>

\* A range loop that steps over every second listener.
ShutdownRangeSkip(i) == i + 2

\* The step of `for _, srv := range m.servers` in Manager.Shutdown.
ShutdownRangeNext(i) == i + 1

\* One iteration of Shutdown's loop: shutdownWg.Add(1) and `go func()`.
ShutdownLoop(c) ==
    /\ ~panicked
    /\ UNCHANGED lsnVars
    /\ shPc[c] = "loop"
    /\ shIdx[c] <= Len(servers)
    /\ LET srv == servers[shIdx[c]] IN
        /\ shutdownWg' = [shutdownWg EXCEPT ![c] = @ + 1]
        /\ shTask' = [shTask EXCEPT ![c][srv] = "spawned"]
    /\ shIdx' = [shIdx EXCEPT ![c] = ShutdownRangeNext(@)]
    /\ UNCHANGED <<mgrVars, startVars, shutdownCalled, shPc, ctxDone, late,
                   errors, errorsClosed, errs, shRet, doneTask, done, result,
                   waitPc>>

\* The loop is over: the caller reaches shutdownWg.Wait().
ShutdownLoopEnd(c) ==
    /\ ~panicked
    /\ UNCHANGED lsnVars
    /\ shPc[c] = "loop"
    /\ shIdx[c] > Len(servers)
    /\ shPc' = [shPc EXCEPT ![c] = "wait"]
    /\ UNCHANGED <<mgrVars, startVars, shutdownCalled, shIdx, ctxDone, late,
                   shutdownWg, errors, errorsClosed, errs, shTask, shRet,
                   doneTask, done, result, waitPc>>

\* A shutdown task calls srv.Shutdown(ctx) only once the Shutdown of every
\* listener before it has returned.
ShTaskCallInTurn(c, i) ==
    /\ ~panicked
    /\ UNCHANGED lsnVars
    /\ shTask[c][i] = "spawned"
    /\ \A j \in Listeners : j < i => shTask[c][j] \notin {"spawned", "running"}
    /\ shTask' = [shTask EXCEPT ![c][i] = "running"]
    /\ shutdownCalled' = [shutdownCalled EXCEPT ![i] = @ + 1]
    /\ UNCHANGED <<mgrVars, startVars, shPc, shIdx, ctxDone, late, shutdownWg,
                   errors, errorsClosed, errs, shRet, doneTask, done, result,
                   waitPc>>

\* A shutdown task calls srv.Shutdown(ctx).
ShTaskCall(c, i) ==
    /\ ~panicked
    /\ UNCHANGED lsnVars
    /\ shTask[c][i] = "spawned"
    /\ shTask' = [shTask EXCEPT ![c][i] = "running"]
    /\ shutdownCalled' = [shutdownCalled EXCEPT ![i] = @ + 1]
    /\ UNCHANGED <<mgrVars, startVars, shPc, shIdx, ctxDone, late, shutdownWg,
                   errors, errorsClosed, errs, shRet, doneTask, done, result,
                   waitPc>>

\* The listener's Shutdown returns e (the listener decides when and what).
ShTaskReturns(c, i, e) ==
    /\ ~panicked
    /\ UNCHANGED lsnVars
    /\ shTask[c][i] = "running"
    /\ shTask' = [shTask EXCEPT ![c][i] = "returned"]
    /\ shRet' = [shRet EXCEPT ![c][i] = e]
    /\ UNCHANGED <<mgrVars, startVars, shutdownCalled, shPc, shIdx, ctxDone,
                   late, shutdownWg, errors, errorsClosed, errs, doneTask,
                   done, result, waitPc>>

\* A channel with room for one error fewer than there are listeners.
ErrorsCapOneShort == Len(servers) - 1

\* `make(chan error, len(m.servers))`
ErrorsCap == Len(servers)

\* fmt.Errorf("%s shutdown error: %w", srv.Name(), err)
ShutdownError(i, e) == [name |-> Name(i), err |-> e]

\* `errors <- ...` on the buffered channel.
Send(ch, v) == Append(ch, v)

\* A shutdown task sends the error of srv.Shutdown, if any, and runs its
\* deferred shutdownWg.Done().  The send blocks while the channel is full and
\* panics when the channel is closed.
ShTaskFinish(c, i) ==
    /\ ~panicked
    /\ UNCHANGED lsnVars
    /\ shTask[c][i] = "returned"
    /\ IF shRet[c][i] = "nil"
       THEN /\ shutdownWg' = [shutdownWg EXCEPT ![c] = @ - 1]
            /\ shTask' = [shTask EXCEPT ![c][i] = "done"]
            /\ UNCHANGED <<errors, panicked>>
       ELSE IF errorsClosed[c]
       THEN /\ panicked' = TRUE
            /\ UNCHANGED <<errors, shutdownWg, shTask>>
       ELSE /\ Len(errors[c]) < ErrorsCap
            /\ errors' = [errors EXCEPT
                            ![c] = Send(@, ShutdownError(i, shRet[c][i]))]
            /\ shutdownWg' = [shutdownWg EXCEPT ![c] = @ - 1]
            /\ shTask' = [shTask EXCEPT ![c][i] = "done"]
            /\ UNCHANGED panicked
    /\ UNCHANGED <<servers, wg, shutdown, startVars, shutdownCalled, shPc,
                   shIdx, ctxDone, late, errorsClosed, errs, shRet, doneTask,
                   done, result, waitPc>>

\* A Wait that does not wait.
WaitGroupNoWait(n) == n >= 0

\* sync.WaitGroup.Wait returns when the counter is zero.
WaitGroupDone(n) == n = 0

\* A single receive `err := <-errors` in place of the range loop.
CollectFirst(ch) == IF ch = <<>> THEN <<>> ELSE <<Head(ch)>>

\* `for err := range errors { errs = append(errs, err) }` on the closed
\* channel: every buffered value, in order.
Collect(ch) == ch

\* shutdownWg.Wait() returns; the caller closes and drains the errors channel
\* and spawns the goroutine that waits on m.wg.
ShutdownCollect(c) ==
    /\ ~panicked
    /\ UNCHANGED lsnVars
    /\ shPc[c] = "wait"
    /\ WaitGroupDone(shutdownWg[c])
    /\ errorsClosed' = [errorsClosed EXCEPT ![c] = TRUE]
    /\ errs' = [errs EXCEPT ![c] = Collect(errors[c])]
    /\ errors' = [errors EXCEPT ![c] = <<>>]
    /\ doneTask' = [doneTask EXCEPT ![c] = "waiting"]
    /\ shPc' = [shPc EXCEPT ![c] = "select"]
    /\ UNCHANGED <<mgrVars, startVars, shutdownCalled, shIdx, ctxDone, late,
                   shutdownWg, shTask, shRet, done, result, waitPc>>

\* `m.wg.Wait(); close(done)` in the goroutine of manager.go:94-97.
DoneTask(c) ==
    /\ ~panicked
    /\ UNCHANGED lsnVars
    /\ doneTask[c] = "waiting"
    /\ WaitGroupDone(wg)
    /\ done' = [done EXCEPT ![c] = TRUE]
    /\ doneTask' = [doneTask EXCEPT ![c] = "finished"]
    /\ UNCHANGED <<mgrVars, startVars, shutdownCalled, shPc, shIdx, ctxDone,
                   late, shutdownWg, errors, errorsClosed, errs, shTask, shRet,
                   result, waitPc>>

\* The composite error built without the test of len(errs).
ShutdownResultNoLenTest(e) == [kind |-> "errors", errs |-> e]

\* `if len(errs) > 0 { return fmt.Errorf("shutdown errors: %v", errs) }
\*  return nil`
ShutdownResult(e) ==
    IF Len(e) > 0 THEN [kind |-> "errors", errs |-> e]
                  ELSE [kind |-> "nil", errs |-> <<>>]

\* fmt.Errorf("shutdown timeout exceeded")
TimeoutResult == [kind |-> "timeout", errs |-> <<>>]

\* done closed before m.wg.Wait(): ready as soon as the goroutine exists.
DoneReadyNoWait(c) == doneTask[c] # "none"

\* `case <-done:` is ready when done is closed.
DoneReady(c) == done[c]

\* `case <-ctx.Done():` is ready when the deadline has expired.
CtxReady(c) == ctxDone[c]

\* select takes `case <-done` and Shutdown returns the collected errors or
\* nil.  When both cases are ready, select picks either.
ShutdownSelectDone(c) ==
    /\ ~panicked
    /\ UNCHANGED lsnVars
    /\ shPc[c] = "select"
    /\ DoneReady(c)
    /\ result' = [result EXCEPT ![c] = ShutdownResult(errs[c])]
    /\ shPc' = [shPc EXCEPT ![c] = "returned"]
    /\ UNCHANGED <<mgrVars, startVars, shutdownCalled, shIdx, ctxDone, late,
                   shutdownWg, errors, errorsClosed, errs, shTask, shRet,
                   doneTask, done, waitPc>>

\* select takes `case <-ctx.Done()` and Shutdown returns the timeout error.
ShutdownSelectTimeout(c) ==
    /\ ~panicked
    /\ UNCHANGED lsnVars
    /\ shPc[c] = "select"
    /\ CtxReady(c)
    /\ result' = [result EXCEPT ![c] = TimeoutResult]
    /\ shPc' = [shPc EXCEPT ![c] = "returned"]
    /\ UNCHANGED <<mgrVars, startVars, shutdownCalled, shIdx, ctxDone, late,
                   shutdownWg, errors, errorsClosed, errs, shTask, shRet,
                   doneTask, done, waitPc>>

----------------------------------------------------------------------------
\* Manager.Wait

\* A caller enters Manager.Wait.
WaitCall ==
    /\ ~panicked
    /\ UNCHANGED lsnVars
    /\ waitPc = "idle"
    /\ startPc # "loop"
    /\ waitPc' = "waiting"
    /\ UNCHANGED <<mgrVars, startVars, shVars>>

\* m.wg.Wait() returns.
WaitReturn ==
    /\ ~panicked
    /\ UNCHANGED lsnVars
    /\ waitPc = "waiting"
    /\ WaitGroupDone(wg)
    /\ waitPc' = "returned"
    /\ UNCHANGED <<mgrVars, startVars, shVars>>

----------------------------------------------------------------------------
\* The steps of the goroutine that called Manager.Shutdown as call c.
ShutdownSteps(c) ==
    \/ ShutdownLoop(c)
    \/ ShutdownLoopEnd(c)
    \/ ShutdownCollect(c)
    \/ ShutdownSelectDone(c)
    \/ ShutdownSelectTimeout(c)

Next ==
    \/ RegisterServer
    \/ ManagerStartCall
    \/ ManagerStartLoop
    \/ ManagerStartReturn
    \/ \E i \in Listeners : TaskCallStart(i)
    \/ \E i \in Listeners, e \in StartResults : TaskReturn(i, e)
    \/ \E c \in Calls : ShutdownCall(c)
    \/ \E c \in Calls : DeadlineExpires(c)
    \/ \E c \in Calls : ShutdownSteps(c)
    \/ \E c \in Calls, i \in Listeners : ShTaskCall(c, i)
    \/ \E c \in Calls, i \in Listeners, e \in ShutdownResults :
           ShTaskReturns(c, i, e)
    \/ \E c \in Calls, i \in Listeners : ShTaskFinish(c, i)
    \/ \E c \in Calls : DoneTask(c)
    \/ WaitCall
    \/ WaitReturn

Spec == Init /\ [][Next]_vars

\* The Go scheduler runs every runnable goroutine: a Manager.Wait whose
\* waitgroup counter is zero returns.  Listeners and callers are under no
\* obligation.
FairSpec == Spec /\ WF_vars(WaitReturn)

----------------------------------------------------------------------------
\* Properties of the Manager

\* The listeners registered with the Manager.
Registered == {servers[k] : k \in 1..Len(servers)}

\* Number of Manager.Shutdown calls made so far.
ShutdownCallsMade == Cardinality({c \in Calls : shPc[c] # "idle"})

\* Every dispatched start task has returned.
StartTasksReturned == \A i \in Listeners : task[i] \in {"none", "done"}

\* Call c of Manager.Shutdown is between its entry and its return.
InShutdown(c) == shPc[c] \in {"loop", "wait", "select"}

\* C1: for any number of registered listeners, Manager.Start followed by one
\* Manager.Shutdown call has, when that call returns, invoked the Shutdown of
\* every registered listener exactly once; no listener's Shutdown is ever
\* invoked twice, and none of an unregistered listener.
C1_EachListenerShutdownOnce ==
    ShutdownCallsMade <= 1 =>
        /\ \A i \in Listeners : shutdownCalled[i] <= 1
        /\ \A i \in Listeners \ Registered : shutdownCalled[i] = 0
        /\ \A c \in Calls :
            (startPc = "returned" /\ shPc[c] = "returned") =>
                \A i \in Registered : shutdownCalled[i] = 1

\* Start, then a single Shutdown that has returned, with two listeners or more.
C1_Witness ==
    /\ startPc = "returned"
    /\ Len(servers) >= 2
    /\ ShutdownCallsMade = 1
    /\ shPc[1] = "returned"

\* C2: Manager.Start spawns exactly one start task per registered listener,
\* each task calls the Start of its own listener once, and Manager.Start
\* returns nil when the tasks are dispatched: none of its steps waits for a
\* start task.
C2_StartDispatchesOneTaskEach ==
    /\ \A i \in Listeners :
        /\ dispatched[i] <= 1
        /\ startCalled[i] <= dispatched[i]
        /\ task[i] \in {"running", "done"} => startCalled[i] = 1
        /\ i \notin Registered => dispatched[i] = 0
    /\ startPc = "loop" => ENABLED (ManagerStartLoop \/ ManagerStartReturn)
    /\ startRet \in {"none", "nil"}
    /\ startPc = "returned" =>
        /\ startRet = "nil"
        /\ \A i \in Registered : dispatched[i] = 1

\* Manager.Start has returned while one listener's Start has not been called
\* yet and another one's is still running.
C2_Witness ==
    /\ startPc = "returned"
    /\ \E i, j \in Registered : task[i] = "spawned" /\ task[j] = "running"

\* C3: in every state in which a Manager.Shutdown call has returned nil, every
\* start task dispatched by Manager.Start has returned and the waitgroup
\* counter is zero.
C3_NilShutdownAfterStartTasks ==
    \A c \in Calls :
        (shPc[c] = "returned" /\ result[c].kind = "nil") =>
            StartTasksReturned /\ wg = 0

\* Shutdown returned nil after Start dispatched two start tasks or more.
C3_Witness ==
    /\ startPc = "returned"
    /\ Len(servers) >= 2
    /\ \E c \in Calls : shPc[c] = "returned" /\ result[c].kind = "nil"

\* C4: a second call of Manager.Shutdown, after or during the first, does not
\* crash the process: no call ends in a panic.
C4_SecondShutdownSafe ==
    /\ ~panicked
    /\ \A c \in Calls : shPc[c] # "panicked"

\* The steps of the Manager's own code in call c: the caller's, those of its
\* shutdown tasks outside srv.Shutdown, and that of the goroutine closing done.
ShutdownCode(c) ==
    \/ ShutdownSteps(c)
    \/ \E i \in Listeners : ShTaskCall(c, i) \/ ShTaskFinish(c, i)
    \/ DoneTask(c)

\* C5: once the deadline of its derived context has expired, a Manager.Shutdown
\* call that has not returned is never left waiting for a listener: a step of
\* the Manager's own code is possible, whatever the listeners do.
C5_ShutdownBoundedByDeadline ==
    \A c \in Calls :
        (~panicked /\ ctxDone[c] /\ InShutdown(c)) => ENABLED ShutdownCode(c)

\* C6: whenever the deadline expired while a listener had not finished shutting
\* down or a start task had not returned, Manager.Shutdown returns the timeout
\* error, never nil and never the composite error.
C6_LateShutdownReturnsTimeout ==
    \A c \in Calls :
        (shPc[c] = "returned" /\ late[c]) => result[c] = TimeoutResult

\* The listeners whose Shutdown returned an error in call c.
FailedShutdowns(c) == {i \in Registered : shRet[c][i] \notin {"none", "nil"}}

\* The errors of a composite error, as a set.
ErrorSet(e) == {e[k] : k \in 1..Len(e)}

C8_StartErrorSurfaced ==
    \A c \in Calls : \A i \in Registered :
        (shPc[c] = "returned" /\ startErr[i] = "bind") =>
            ShutdownError(i, startErr[i]) \in ErrorSet(result[c].errs)

\* C8, amended: the start task only logs the error of its listener's Start
\* (unless it is nil or http.ErrServerClosed); the result of Manager.Shutdown
\* holds errors returned by listeners' Shutdown calls and no Start error.
C8_StartErrorOnlyLogged ==
    /\ \A i \in Listeners :
        /\ i \in logged => task[i] = "done"
        /\ task[i] = "done" => (i \in logged <=> startErr[i] = "bind")
    /\ \A c \in Calls : \A k \in 1..Len(result[c].errs) :
        /\ result[c].errs[k].err \in ShutdownResults \ {"nil"}
        /\ \E i \in Registered :
               result[c].errs[k] = ShutdownError(i, shRet[c][i])

\* A listener's Start failed, another one's ended with http.ErrServerClosed,
\* and Manager.Shutdown returned nil.
C8_Witness ==
    /\ \E i, j \in Registered :
           startErr[i] = "bind" /\ startErr[j] = "ErrServerClosed"
    /\ \E c \in Calls : shPc[c] = "returned" /\ result[c].kind = "nil"

\* Every listener's Shutdown returned nil in call c.
AllShutdownsNil(c) == \A i \in Registered : shRet[c][i] = "nil"

\* C9, as claimed: a Manager.Shutdown on a Manager never started calls each
\* listener's Shutdown once and no Start, and returns nil when those Shutdown
\* calls return nil.
C9_ShutdownBeforeStartNil ==
    \A c \in Calls :
        (startPc = "idle" /\ ShutdownCallsMade <= 1 /\ shPc[c] = "returned") =>
            /\ \A i \in Registered : shutdownCalled[i] = 1
            /\ \A i \in Listeners : startCalled[i] = 0
            /\ AllShutdownsNil(c) => result[c].kind = "nil"

\* C9, amended: a Manager.Shutdown on a Manager never started calls each
\* listener's Shutdown once and no Start, and returns nil when those Shutdown
\* calls return nil and its deadline has not expired.  With no listener, Start
\* returns nil, and Start, Wait and Shutdown are never blocked; Shutdown
\* returns nil, or the timeout error if its deadline has expired.
C9_ShutdownBeforeStart ==
    /\ \A c \in Calls :
        (startPc = "idle" /\ ShutdownCallsMade <= 1 /\ shPc[c] = "returned") =>
            /\ \A i \in Registered : shutdownCalled[i] = 1
            /\ \A i \in Listeners : startCalled[i] = 0 /\ task[i] = "none"
            /\ (AllShutdownsNil(c) /\ ~ctxDone[c]) => result[c].kind = "nil"
    /\ (Len(servers) = 0 /\ ShutdownCallsMade <= 1) =>
        /\ startPc = "loop" => ENABLED ManagerStartReturn
        /\ startRet \in {"none", "nil"}
        /\ waitPc = "waiting" => ENABLED WaitReturn
        /\ \A c \in Calls :
            /\ InShutdown(c) => ENABLED ShutdownCode(c)
            /\ shPc[c] = "returned" =>
                /\ result[c].kind \in {"nil", "timeout"}
                /\ ~ctxDone[c] => result[c].kind = "nil"

\* Shutdown of a Manager with a listener and never started has returned nil.
C9_Witness ==
    /\ startPc = "idle"
    /\ Len(servers) >= 1
    /\ ShutdownCallsMade = 1
    /\ shPc[1] = "returned"
    /\ result[1].kind = "nil"

\* C10: Manager.Wait has returned only if every start task dispatched by
\* Manager.Start has returned, and a Manager.Wait that waits while every
\* start task has returned (or none was dispatched) returns, as long as the
\* process lives.
C10_WaitReturnsAfterStartTasks ==
    /\ [](waitPc = "returned" => StartTasksReturned)
    /\ (waitPc = "waiting" /\ StartTasksReturned)
           ~> (waitPc = "returned" \/ panicked)

\* Wait returned after two start tasks or more ran and returned.
C10_Witness ==
    /\ waitPc = "returned"
    /\ startPc = "returned"
    /\ Len(servers) >= 2
    /\ \A i \in Registered : startCalled[i] = 1 /\ task[i] = "done"

----------------------------------------------------------------------------
\* TCPServer.Start: the accept loop (tcp_server.go:53-125)

\* Everything that is not part of the TCP listener.
mgrAll == <<mgrVars, startVars, shVars, waitPc>>

nonTcpVars == <<mgrAll, httpVars, auxVars>>

\* The owner of the ctx handed to Start cancels it.
CancelCtx ==
    /\ ~tcpCtx
    /\ tcpCtx' = TRUE
    /\ UNCHANGED <<nonTcpVars, socket, tcpListener, acceptPc, tcpStartRet,
                   accepted, fullAtAccept, tcpSharedVars, tcpConnVars, tcpShVars>>

\* The start task calls Start.
TcpStartCall ==
    /\ acceptPc = "idle"
    /\ acceptPc' = "listen"
    /\ UNCHANGED <<nonTcpVars, tcpCtx, socket, tcpListener, tcpStartRet,
                   accepted, fullAtAccept, tcpSharedVars, tcpConnVars, tcpShVars>>

\* net.Listen binds the socket, or fails and Start returns the error.
TcpListen ==
    /\ acceptPc = "listen"
    /\ \/ /\ socket' = "open"
          /\ acceptPc' = "store"
          /\ UNCHANGED tcpStartRet
       \/ /\ acceptPc' = "returned"
          /\ tcpStartRet' = "bind"
          /\ UNCHANGED socket
    /\ UNCHANGED <<nonTcpVars, tcpCtx, tcpListener, accepted, fullAtAccept, tcpSharedVars,
                   tcpConnVars, tcpShVars>>

\* Start stores ctx and the listener under the mutex.
TcpStoreListener ==
    /\ acceptPc = "store"
    /\ tcpMu = "free"
    /\ tcpListener' = TRUE
    /\ acceptPc' = "select"
    /\ UNCHANGED <<nonTcpVars, tcpCtx, socket, tcpStartRet, accepted, fullAtAccept,
                   tcpSharedVars, tcpConnVars, tcpShVars>>

\* What the select at the top of the loop does with each ready case; the
\* default case runs only when no channel is ready.
SelectOutcomesNoCtx(cancelled, closed) ==
    IF closed THEN {"nil"} ELSE {"accept"}

SelectOutcomesNoShutdown(cancelled, closed) ==
    IF cancelled THEN {"ctxErr"} ELSE {"accept"}

SelectOutcomes(cancelled, closed) ==
    IF ~cancelled /\ ~closed
    THEN {"accept"}
    ELSE {r \in {"ctxErr", "nil"} : (r = "ctxErr" /\ cancelled)
                                    \/ (r = "nil" /\ closed)}

TcpSelect ==
    /\ acceptPc = "select"
    /\ \E r \in SelectOutcomes(tcpCtx, tcpShutdown) :
          IF r = "accept"
          THEN acceptPc' = "accept" /\ UNCHANGED tcpStartRet
          ELSE acceptPc' = "returned" /\ tcpStartRet' = r
    /\ UNCHANGED <<nonTcpVars, tcpCtx, socket, tcpListener, accepted, fullAtAccept,
                   tcpSharedVars, tcpConnVars, tcpShVars>>

\* A client dials the listening socket and Accept returns the connection; the
\* connections are numbered as Accept returns them.
AcceptConn(k) ==
    /\ acceptPc = "accept"
    /\ socket = "open"
    /\ conn[k] = "idle"
    /\ \A j \in Conns : j < k => conn[j] # "idle"
    /\ conn' = [conn EXCEPT ![k] = "held"]
    /\ accepted' = k
    /\ fullAtAccept' = (tcpActiveConns >= maxTCPConnections)
    /\ acceptPc' = "lock"
    /\ UNCHANGED <<nonTcpVars, tcpCtx, socket, tcpListener, tcpStartRet,
                   tcpSharedVars, handler, closes, gauge, tcpShVars>>

\* Accept runs into the one-second deadline: the loop starts over.
AcceptTimeout ==
    /\ acceptPc = "accept"
    /\ socket = "open"
    /\ acceptPc' = "select"
    /\ UNCHANGED <<nonTcpVars, tcpCtx, socket, tcpListener, tcpStartRet,
                   accepted, fullAtAccept, tcpSharedVars, tcpConnVars, tcpShVars>>

\* Accept fails with another error: the listener is closed, or the system
\* reports a transient failure.
AcceptError ==
    /\ acceptPc = "accept"
    /\ acceptPc' = "accepterr"
    /\ UNCHANGED <<nonTcpVars, tcpCtx, socket, tcpListener, tcpStartRet,
                   accepted, fullAtAccept, tcpSharedVars, tcpConnVars, tcpShVars>>

\* After an Accept error Start returns nil, shutting down or not.
AcceptErrorReturns ==
    /\ acceptPc = "accepterr"
    /\ acceptPc' = "returned"
    /\ tcpStartRet' = "nil"
    /\ UNCHANGED <<nonTcpVars, tcpCtx, socket, tcpListener, accepted, fullAtAccept,
                   tcpSharedVars, tcpConnVars, tcpShVars>>

\* After an Accept error: return nil when shutting down, else log and go on.
AcceptErrorSelect ==
    /\ acceptPc = "accepterr"
    /\ IF tcpShutdown
       THEN acceptPc' = "returned" /\ tcpStartRet' = "nil"
       ELSE acceptPc' = "select" /\ UNCHANGED tcpStartRet
    /\ UNCHANGED <<nonTcpVars, tcpCtx, socket, tcpListener, accepted, fullAtAccept,
                   tcpSharedVars, tcpConnVars, tcpShVars>>

\* s.mu.Lock() before the connection is accounted for.
AcceptLock ==
    /\ acceptPc = "lock"
    /\ tcpMu = "free"
    /\ tcpMu' = "start"
    /\ acceptPc' = "chkflag"
    /\ UNCHANGED <<nonTcpVars, tcpCtx, socket, tcpListener, tcpStartRet,
                   accepted, fullAtAccept, tcpShuttingDown, tcpShutdown, tcpWg,
                   tcpActiveConns, tcpConnections, tcpConnVars, tcpShVars>>

\* The loop goes on to the limit test without reading s.shuttingDown.
CheckShuttingDownSkipped ==
    /\ acceptPc = "chkflag"
    /\ acceptPc' = "chklimit"
    /\ UNCHANGED <<nonTcpVars, tcpCtx, socket, tcpListener, tcpStartRet,
                   accepted, fullAtAccept, tcpMu, tcpShuttingDown, tcpShutdown,
                   tcpWg, tcpActiveConns, tcpConnections, tcpConnVars,
                   tcpShVars>>

\* The loop reads s.shuttingDown under the mutex.
CheckShuttingDown ==
    /\ acceptPc = "chkflag"
    /\ IF tcpShuttingDown = 1
       THEN tcpMu' = "free" /\ acceptPc' = "refuse"
       ELSE acceptPc' = "chklimit" /\ UNCHANGED tcpMu
    /\ UNCHANGED <<nonTcpVars, tcpCtx, socket, tcpListener, tcpStartRet,
                   accepted, fullAtAccept, tcpShuttingDown, tcpShutdown, tcpWg,
                   tcpActiveConns, tcpConnections, tcpConnVars, tcpShVars>>

\* The connection accepted during shutdown is closed and the loop goes on.
RefuseConnContinue ==
    /\ acceptPc = "refuse"
    /\ conn' = [conn EXCEPT ![accepted] = "refused"]
    /\ closes' = [closes EXCEPT ![accepted] = @ + 1]
    /\ accepted' = 0
    /\ fullAtAccept' = FALSE
    /\ acceptPc' = "select"
    /\ UNCHANGED <<nonTcpVars, tcpCtx, socket, tcpListener, tcpStartRet,
                   tcpSharedVars, handler, gauge, tcpShVars>>

\* The connection accepted during shutdown is closed and Start returns nil.
RefuseConn ==
    /\ acceptPc = "refuse"
    /\ conn' = [conn EXCEPT ![accepted] = "refused"]
    /\ closes' = [closes EXCEPT ![accepted] = @ + 1]
    /\ accepted' = 0
    /\ fullAtAccept' = FALSE
    /\ acceptPc' = "returned"
    /\ tcpStartRet' = "nil"
    /\ UNCHANGED <<nonTcpVars, tcpCtx, socket, tcpListener, tcpSharedVars,
                   handler, gauge, tcpShVars>>

\* The limit test of the accept loop: currentConns >= maxTCPConnections.
AtLimitOffByOne(n) == n > maxTCPConnections

AtLimit(n) == n >= maxTCPConnections

\* The loop tests the limit and releases the mutex before s.wg.Add(1).
CheckLimitUnlocks ==
    /\ acceptPc = "chklimit"
    /\ tcpMu' = "free"
    /\ acceptPc' = IF AtLimit(tcpActiveConns) THEN "reject" ELSE "add"
    /\ UNCHANGED <<nonTcpVars, tcpCtx, socket, tcpListener, tcpStartRet,
                   accepted, fullAtAccept, tcpShuttingDown, tcpShutdown, tcpWg,
                   tcpActiveConns, tcpConnections, tcpConnVars, tcpShVars>>

\* The loop reads s.activeConns under the mutex and tests the limit.
CheckLimit ==
    /\ acceptPc = "chklimit"
    /\ IF AtLimit(tcpActiveConns)
       THEN tcpMu' = "free" /\ acceptPc' = "reject"
       ELSE acceptPc' = "add" /\ UNCHANGED tcpMu
    /\ UNCHANGED <<nonTcpVars, tcpCtx, socket, tcpListener, tcpStartRet,
                   accepted, fullAtAccept, tcpShuttingDown, tcpShutdown, tcpWg,
                   tcpActiveConns, tcpConnections, tcpConnVars, tcpShVars>>

\* The connection over the limit is closed and Start returns.
RejectConnStops ==
    /\ acceptPc = "reject"
    /\ conn' = [conn EXCEPT ![accepted] = "rejected"]
    /\ closes' = [closes EXCEPT ![accepted] = @ + 1]
    /\ accepted' = 0
    /\ fullAtAccept' = FALSE
    /\ acceptPc' = "returned"
    /\ tcpStartRet' = "nil"
    /\ UNCHANGED <<nonTcpVars, tcpCtx, socket, tcpListener,
                   tcpSharedVars, handler, gauge, tcpShVars>>

\* The connection over the limit is closed; the loop goes on.
RejectConn ==
    /\ acceptPc = "reject"
    /\ conn' = [conn EXCEPT ![accepted] = "rejected"]
    /\ closes' = [closes EXCEPT ![accepted] = @ + 1]
    /\ accepted' = 0
    /\ fullAtAccept' = FALSE
    /\ acceptPc' = "select"
    /\ UNCHANGED <<nonTcpVars, tcpCtx, socket, tcpListener, tcpStartRet,
                   tcpSharedVars, handler, gauge, tcpShVars>>

\* s.wg.Add(1) under the mutex, without the Unlock.
AcceptAddKeepsLock ==
    /\ acceptPc = "add"
    /\ tcpWg' = tcpWg + 1
    /\ acceptPc' = "inc"
    /\ UNCHANGED <<nonTcpVars, tcpCtx, socket, tcpListener, tcpStartRet,
                   accepted, fullAtAccept, tcpMu, tcpShuttingDown, tcpShutdown,
                   tcpActiveConns, tcpConnections, tcpConnVars, tcpShVars>>

\* s.wg.Add(1) under the mutex, then Unlock.
AcceptAdd ==
    /\ acceptPc = "add"
    /\ tcpWg' = tcpWg + 1
    /\ tcpMu' = "free"
    /\ acceptPc' = "inc"
    /\ UNCHANGED <<nonTcpVars, tcpCtx, socket, tcpListener, tcpStartRet,
                   accepted, fullAtAccept, tcpShuttingDown, tcpShutdown, tcpActiveConns,
                   tcpConnections, tcpConnVars, tcpShVars>>

\* atomic.AddInt32(&s.activeConns, 1); go s.handleConnection(conn)
AcceptSpawn ==
    /\ acceptPc = "inc"
    /\ tcpActiveConns' = tcpActiveConns + 1
    /\ conn' = [conn EXCEPT ![accepted] = "dispatched"]
    /\ handler' = [handler EXCEPT ![accepted] = "store"]
    /\ accepted' = 0
    /\ fullAtAccept' = FALSE
    /\ acceptPc' = "select"
    /\ UNCHANGED <<nonTcpVars, tcpCtx, socket, tcpListener, tcpStartRet, tcpMu,
                   tcpShuttingDown, tcpShutdown, tcpWg, tcpConnections, closes,
                   gauge, tcpShVars>>

----------------------------------------------------------------------------
\* handleConnection (tcp_server.go:128-149) and the TCP handler it runs

\* s.connections.Store(connID, conn)
HandlerStore(k) ==
    /\ handler[k] = "store"
    /\ tcpConnections' = tcpConnections \cup {k}
    /\ handler' = [handler EXCEPT ![k] = "run"]
    /\ UNCHANGED <<nonTcpVars, tcpStartVars, tcpMu, tcpShuttingDown,
                   tcpShutdown, tcpWg, tcpActiveConns, conn, closes, gauge,
                   tcpShVars>>

\* The handler reads s.ctx under the read lock and runs TCPHandler, which
\* counts the connection in the gauge and writes its one response.
HandlerRun(k) ==
    /\ handler[k] = "run"
    /\ tcpMu = "free"
    /\ gauge' = gauge + 1
    /\ handler' = [handler EXCEPT ![k] = "written"]
    /\ UNCHANGED <<nonTcpVars, tcpStartVars, tcpSharedVars, conn, closes,
                   tcpShVars>>

\* TCPHandler ends without closing the connection.
HandlerCloseSkipped(k) ==
    /\ handler[k] = "written"
    /\ gauge' = gauge - 1
    /\ handler' = [handler EXCEPT ![k] = "closed"]
    /\ UNCHANGED <<nonTcpVars, tcpStartVars, tcpSharedVars, conn, closes,
                   tcpShVars>>

\* TCPHandler's deferred calls: the gauge goes down, the connection is closed.
HandlerClose(k) ==
    /\ handler[k] = "written"
    /\ gauge' = gauge - 1
    /\ closes' = [closes EXCEPT ![k] = @ + 1]
    /\ handler' = [handler EXCEPT ![k] = "closed"]
    /\ UNCHANGED <<nonTcpVars, tcpStartVars, tcpSharedVars, conn, tcpShVars>>

\* The handler goes on to its decrement and leaves its entry in the map.
HandlerDeleteSkipped(k) ==
    /\ handler[k] = "closed"
    /\ handler' = [handler EXCEPT ![k] = "deleted"]
    /\ UNCHANGED <<nonTcpVars, tcpStartVars, tcpSharedVars, conn, closes,
                   gauge, tcpShVars>>

\* defer s.connections.Delete(connID)
HandlerDelete(k) ==
    /\ handler[k] = "closed"
    /\ tcpConnections' = tcpConnections \ {k}
    /\ handler' = [handler EXCEPT ![k] = "deleted"]
    /\ UNCHANGED <<nonTcpVars, tcpStartVars, tcpMu, tcpShuttingDown,
                   tcpShutdown, tcpWg, tcpActiveConns, conn, closes, gauge,
                   tcpShVars>>

\* defer atomic.AddInt32(&s.activeConns, -1)
HandlerDec(k) ==
    /\ handler[k] = "deleted"
    /\ tcpActiveConns' = tcpActiveConns - 1
    /\ handler' = [handler EXCEPT ![k] = "decd"]
    /\ UNCHANGED <<nonTcpVars, tcpStartVars, tcpMu, tcpShuttingDown,
                   tcpShutdown, tcpWg, tcpConnections, conn, closes, gauge,
                   tcpShVars>>

\* The handler goroutine ends without s.wg.Done().
HandlerNoDone(k) ==
    /\ handler[k] = "decd"
    /\ handler' = [handler EXCEPT ![k] = "done"]
    /\ UNCHANGED <<nonTcpVars, tcpStartVars, tcpSharedVars, conn, closes,
                   gauge, tcpShVars>>

\* defer s.wg.Done()
HandlerDone(k) ==
    /\ handler[k] = "decd"
    /\ tcpWg' = tcpWg - 1
    /\ handler' = [handler EXCEPT ![k] = "done"]
    /\ UNCHANGED <<nonTcpVars, tcpStartVars, tcpMu, tcpShuttingDown,
                   tcpShutdown, tcpActiveConns, tcpConnections, conn, closes,
                   gauge, tcpShVars>>

HandlerSteps(k) ==
    \/ HandlerStore(k)
    \/ HandlerRun(k)
    \/ HandlerClose(k)
    \/ HandlerDelete(k)
    \/ HandlerDec(k)
    \/ HandlerDone(k)

----------------------------------------------------------------------------
\* TCPServer.Shutdown (tcp_server.go:152-203)

\* The call that runs the body of s.shutdownOnce.
FirstCall == 1

\* A caller enters Shutdown; its call is the first to reach the once.
TcpShutdownCall(c) ==
    /\ tsPc[c] = "idle"
    /\ c = FirstCall
    /\ tsPc' = [tsPc EXCEPT ![c] = "once"]
    /\ UNCHANGED <<nonTcpVars, tcpStartVars, tcpSharedVars, tcpConnVars,
                   tcpShutdownOnce, tsCtx, tsLate, tsErr, tsRet, tsListener,
                   tcpDoneTask, tcpDone>>

\* The ctx handed to call c is done: its deadline expired or it was cancelled.
\* Only the call that runs the once body ever reads its ctx.
TcpDeadlineExpires(c) ==
    /\ tsPc[c] \notin {"idle", "once", "returned"}
    /\ ~tsCtx[c]
    /\ tsCtx' = [tsCtx EXCEPT ![c] = TRUE]
    /\ tsLate' = [tsLate EXCEPT ![c] = tcpWg > 0]
    /\ UNCHANGED <<nonTcpVars, tcpStartVars, tcpSharedVars, tcpConnVars,
                   tcpShutdownOnce, tsPc, tsErr, tsRet, tsListener,
                   tcpDoneTask, tcpDone>>

\* s.shutdownOnce.Do: the first caller runs the body.
OnceEnter(c) ==
    /\ tsPc[c] = "once"
    /\ tcpShutdownOnce = "new"
    /\ tcpShutdownOnce' = "running"
    /\ tsPc' = [tsPc EXCEPT ![c] = "flag"]
    /\ UNCHANGED <<nonTcpVars, tcpStartVars, tcpSharedVars, tcpConnVars,
                   tsCtx, tsLate, tsErr, tsRet, tsListener, tcpDoneTask, tcpDone>>

\* A later call of Shutdown returns at once, without waiting for the body
\* that the first call is running.
OnceSkipNoWait(c) ==
    /\ tsPc[c] = "idle"
    /\ c # FirstCall
    /\ \A d \in Calls : d < c => tsPc[d] # "idle"
    /\ tcpShutdownOnce # "new"
    /\ tsPc' = [tsPc EXCEPT ![c] = "returned"]
    /\ tsRet' = [tsRet EXCEPT ![c] = tsErr[c]]
    /\ UNCHANGED <<nonTcpVars, tcpStartVars, tcpSharedVars, tcpConnVars,
                   tcpShutdownOnce, tsCtx, tsLate, tsErr, tsListener, tcpDoneTask,
                   tcpDone>>

\* A later call of Shutdown: s.shutdownOnce.Do makes the caller wait until
\* the body has run and skips it, and the call returns its own err, which
\* nothing has set.  The wait has no effect on the server, so the call is one
\* step, taken when the once is done; the later calls are numbered as they
\* return.
OnceSkip(c) ==
    /\ tsPc[c] = "idle"
    /\ c # FirstCall
    /\ \A d \in Calls : d < c => tsPc[d] = "returned"
    /\ tcpShutdownOnce = "done"
    /\ tsPc' = [tsPc EXCEPT ![c] = "returned"]
    /\ tsRet' = [tsRet EXCEPT ![c] = tsErr[c]]
    /\ UNCHANGED <<nonTcpVars, tcpStartVars, tcpSharedVars, tcpConnVars,
                   tcpShutdownOnce, tsCtx, tsLate, tsErr, tsListener, tcpDoneTask,
                   tcpDone>>

\* The body goes on to close the channel without storing the flag.
SetShuttingDownNoStore(c) ==
    /\ tsPc[c] = "flag"
    /\ tsPc' = [tsPc EXCEPT ![c] = "close"]
    /\ UNCHANGED <<nonTcpVars, tcpStartVars, tcpSharedVars, tcpConnVars,
                   tcpShutdownOnce, tsCtx, tsLate, tsErr, tsRet, tsListener,
                   tcpDoneTask, tcpDone>>

\* atomic.StoreInt32(&s.shuttingDown, 1)
SetShuttingDown(c) ==
    /\ tsPc[c] = "flag"
    /\ tcpShuttingDown' = 1
    /\ tsPc' = [tsPc EXCEPT ![c] = "close"]
    /\ UNCHANGED <<nonTcpVars, tcpStartVars, tcpMu, tcpShutdown, tcpWg,
                   tcpActiveConns, tcpConnections, tcpConnVars,
                   tcpShutdownOnce, tsCtx, tsLate, tsErr, tsRet, tsListener,
                   tcpDoneTask, tcpDone>>

\* close(s.shutdown)
CloseShutdown(c) ==
    /\ tsPc[c] = "close"
    /\ tcpShutdown' = TRUE
    /\ tsPc' = [tsPc EXCEPT ![c] = "rlock"]
    /\ UNCHANGED <<nonTcpVars, tcpStartVars, tcpMu, tcpShuttingDown, tcpWg,
                   tcpActiveConns, tcpConnections, tcpConnVars,
                   tcpShutdownOnce, tsCtx, tsLate, tsErr, tsRet, tsListener,
                   tcpDoneTask, tcpDone>>

\* The body reads s.listener under the read lock.
ReadListener(c) ==
    /\ tsPc[c] = "rlock"
    /\ tcpMu = "free"
    /\ tsListener' = tcpListener
    /\ tsPc' = [tsPc EXCEPT ![c] = "lclose"]
    /\ UNCHANGED <<nonTcpVars, tcpStartVars, tcpSharedVars, tcpConnVars,
                   tcpShutdownOnce, tsCtx, tsLate, tsErr, tsRet, tcpDoneTask, tcpDone>>

\* if listener != nil: listener.Close(), whose error becomes err.
CloseListener(c) ==
    /\ tsPc[c] = "lclose"
    /\ IF tsListener
       THEN /\ socket' = "closed"
            /\ \E e \in {TcpNil, TcpCloseErr} : tsErr' = [tsErr EXCEPT ![c] = e]
       ELSE UNCHANGED <<socket, tsErr>>
    /\ tsPc' = [tsPc EXCEPT ![c] = "range"]
    /\ UNCHANGED <<nonTcpVars, tcpCtx, tcpListener, acceptPc, tcpStartRet,
                   accepted, fullAtAccept, tcpSharedVars, tcpConnVars, tcpShutdownOnce,
                   tsCtx, tsLate, tsRet, tsListener, tcpDoneTask, tcpDone>>

\* s.connections.Range closes every connection of the map.
CloseConnections(c) ==
    /\ tsPc[c] = "range"
    /\ closes' = [k \in Conns |->
                     IF k \in tcpConnections THEN closes[k] + 1 ELSE closes[k]]
    /\ tsPc' = [tsPc EXCEPT ![c] = "barrier"]
    /\ UNCHANGED <<nonTcpVars, tcpStartVars, tcpSharedVars, conn, handler,
                   gauge, tcpShutdownOnce, tsCtx, tsLate, tsErr, tsRet, tsListener,
                   tcpDoneTask, tcpDone>>

\* s.mu.Lock(); s.mu.Unlock(): wait for an accept in its critical section.
Barrier(c) ==
    /\ tsPc[c] = "barrier"
    /\ tcpMu = "free"
    /\ tsPc' = [tsPc EXCEPT ![c] = "spawn"]
    /\ UNCHANGED <<nonTcpVars, tcpStartVars, tcpSharedVars, tcpConnVars,
                   tcpShutdownOnce, tsCtx, tsLate, tsErr, tsRet, tsListener,
                   tcpDoneTask, tcpDone>>

\* go func() { s.wg.Wait(); close(done) }()
SpawnDoneTask(c) ==
    /\ tsPc[c] = "spawn"
    /\ tcpDoneTask' = "waiting"
    /\ tsPc' = [tsPc EXCEPT ![c] = "select"]
    /\ UNCHANGED <<nonTcpVars, tcpStartVars, tcpSharedVars, tcpConnVars,
                   tcpShutdownOnce, tsCtx, tsLate, tsErr, tsRet, tsListener, tcpDone>>

\* s.wg.Wait() returns once the counter is zero.
TcpWaitDoneNoWait(n) == n >= 0

TcpWaitDone(n) == n = 0

\* The waiting goroutine: s.wg.Wait() returned, close(done).
TcpDoneTask ==
    /\ tcpDoneTask = "waiting"
    /\ TcpWaitDone(tcpWg)
    /\ tcpDoneTask' = "done"
    /\ tcpDone' = TRUE
    /\ UNCHANGED <<nonTcpVars, tcpStartVars, tcpSharedVars, tcpConnVars,
                   tcpShutdownOnce, tsPc, tsCtx, tsLate, tsErr, tsRet, tsListener>>

\* select: case <-done
TcpSelectDone(c) ==
    /\ tsPc[c] = "select"
    /\ tcpDone
    /\ tsPc' = [tsPc EXCEPT ![c] = "exit"]
    /\ UNCHANGED <<nonTcpVars, tcpStartVars, tcpSharedVars, tcpConnVars,
                   tcpShutdownOnce, tsCtx, tsLate, tsErr, tsRet, tsListener,
                   tcpDoneTask, tcpDone>>

\* select: case <-ctx.Done()
TcpSelectTimeout(c) ==
    /\ tsPc[c] = "select"
    /\ tsCtx[c]
    /\ tsPc' = [tsPc EXCEPT ![c] = "mkerr"]
    /\ UNCHANGED <<nonTcpVars, tcpStartVars, tcpSharedVars, tcpConnVars,
                   tcpShutdownOnce, tsCtx, tsLate, tsErr, tsRet, tsListener,
                   tcpDoneTask, tcpDone>>

\* err = fmt.Errorf("shutdown timeout exceeded, %d connections still
\* active", atomic.LoadInt32(&s.activeConns))
MakeTimeoutError(c) ==
    /\ tsPc[c] = "mkerr"
    /\ tsErr' = [tsErr EXCEPT ![c] = TcpTimeout(tcpActiveConns)]
    /\ tsPc' = [tsPc EXCEPT ![c] = "exit"]
    /\ UNCHANGED <<nonTcpVars, tcpStartVars, tcpSharedVars, tcpConnVars,
                   tcpShutdownOnce, tsCtx, tsLate, tsRet, tsListener, tcpDoneTask,
                   tcpDone>>

\* The body ends, the once is done, Shutdown returns err.
TcpShutdownReturn(c) ==
    /\ tsPc[c] = "exit"
    /\ tcpShutdownOnce' = "done"
    /\ tsRet' = [tsRet EXCEPT ![c] = tsErr[c]]
    /\ tsPc' = [tsPc EXCEPT ![c] = "returned"]
    /\ UNCHANGED <<nonTcpVars, tcpStartVars, tcpSharedVars, tcpConnVars,
                   tsCtx, tsLate, tsErr, tsListener, tcpDoneTask, tcpDone>>

\* The steps of the goroutine that called TCPServer.Shutdown as call c.
TcpShutdownSteps(c) ==
    \/ OnceEnter(c)
    \/ OnceSkip(c)
    \/ SetShuttingDown(c)
    \/ CloseShutdown(c)
    \/ ReadListener(c)
    \/ CloseListener(c)
    \/ CloseConnections(c)
    \/ Barrier(c)
    \/ SpawnDoneTask(c)
    \/ TcpSelectDone(c)
    \/ TcpSelectTimeout(c)
    \/ MakeTimeoutError(c)
    \/ TcpShutdownReturn(c)

\* The steps of the goroutine that runs TCPServer.Start.
TcpStartSteps ==
    \/ TcpListen
    \/ TcpStoreListener
    \/ TcpSelect
    \/ \E k \in Conns : AcceptConn(k)
    \/ AcceptTimeout
    \/ AcceptError
    \/ AcceptErrorSelect
    \/ AcceptLock
    \/ CheckShuttingDown
    \/ RefuseConn
    \/ CheckLimit
    \/ RejectConn
    \/ AcceptAdd
    \/ AcceptSpawn

TCPNext ==
    \/ CancelCtx
    \/ TcpStartCall
    \/ TcpStartSteps
    \/ \E k \in Conns : HandlerSteps(k)
    \/ \E c \in Calls : TcpShutdownCall(c)
    \/ \E c \in Calls : TcpDeadlineExpires(c)
    \/ \E c \in Calls : TcpShutdownSteps(c)
    \/ TcpDoneTask

TCPSpec == Init /\ [][TCPNext]_vars

\* The Go scheduler runs every runnable goroutine, and the one blocking call
\* of the accept loop is bounded by the accept deadline; the mutex it takes
\* is only ever held for the length of one step.  The accept loop therefore
\* keeps taking steps.  Nothing is assumed of the handlers, the Shutdown
\* callers, the clients or the owners of the contexts.
TCPFairSpec ==
    /\ TCPSpec
    /\ WF_vars(TcpStartSteps)

\* A handler goroutine, once spawned, keeps being scheduled: its one blocking
\* call, the read lock, waits for a mutex that is only ever held for the
\* length of one step, and the connection carries a deadline.  Nothing is
\* assumed of the accept loop, of Shutdown or of the clients.
TCPHandlerFairSpec ==
    /\ TCPSpec
    /\ \A k \in Conns : WF_vars(HandlerSteps(k))

\* Both the accept loop and the handler goroutines keep being scheduled: the
\* accept loop's Accept is bounded by its one-second deadline, the handler's
\* write by the connection's 30-second deadline, and the mutex either waits
\* for is only ever held for the length of one step.  Nothing is assumed of
\* Shutdown, of the clients or of the owners of the contexts.
TCPLiveSpec ==
    /\ TCPSpec
    /\ WF_vars(TcpStartSteps)
    /\ \A k \in Conns : WF_vars(HandlerSteps(k))

\* The accept loop and the goroutine that runs the body of Shutdown keep being
\* scheduled: Accept is bounded by its deadline, and the mutex that either
\* waits for is only ever held for the length of a few steps.  Nothing is
\* assumed of the handlers, the clients or the owners of the contexts.
TCPBarrierFairSpec ==
    /\ TCPSpec
    /\ WF_vars(TcpStartSteps)
    /\ WF_vars(TcpShutdownSteps(FirstCall))

----------------------------------------------------------------------------
\* Properties of the TCP listener

\* No TCPServer.Shutdown call has been made yet.
NoTcpShutdownYet == \A c \in Calls : tsPc[c] = "idle"

\* Start has bound its socket and has not returned: the listener is listening.
TcpListening == acceptPc \notin {"idle", "listen", "returned"}

\* C12: for a TCPServer that is listening and on which Shutdown has not been
\* called, cancelling the context passed to Start makes Start eventually
\* return, and the value returned is the context's error, not nil.
C12_CancelStopsTcpStart ==
    /\ [](acceptPc = "returned" /\ socket # "none" /\ NoTcpShutdownYet
            => tcpStartRet = "ctxErr")
    /\ ((tcpCtx /\ TcpListening /\ NoTcpShutdownYet)
            ~> (acceptPc = "returned" \/ ~NoTcpShutdownYet))

\* Start returned the context's error after it had dispatched a connection,
\* and Shutdown was never called.
C12_Witness ==
    /\ acceptPc = "returned" /\ tcpStartRet = "ctxErr"
    /\ tcpCtx /\ NoTcpShutdownYet
    /\ \E k \in Conns : conn[k] = "dispatched"

\* The connections whose handler has not yet run its deferred decrement of
\* s.activeConns.
InFlight == {k \in Conns : handler[k] \in {"store", "run", "written",
                                            "closed", "deleted"}}

\* C13 (as stated): s.activeConns is at most maxTCPConnections, and a
\* connection that Accept returned while s.activeConns was already at the
\* limit is never dispatched to a handler.
C13_AcceptedAtLimitNeverDispatched ==
    /\ [](tcpActiveConns <= maxTCPConnections)
    /\ [][acceptPc = "inc" /\ acceptPc' = "select" => ~fullAtAccept]_vars

\* C13 (amended): s.activeConns, and with it the number of dispatched
\* connections whose handler has not run its decrement, is at most
\* maxTCPConnections; a connection for which the loop's limit test reads
\* s.activeConns at the limit is closed and never dispatched.
C13_ActiveConnsBounded ==
    /\ [](/\ tcpActiveConns <= maxTCPConnections
          /\ Cardinality(InFlight) <= tcpActiveConns
          /\ \A k \in Conns :
                conn[k] = "rejected" => handler[k] = "none" /\ closes[k] = 1)
    /\ [][acceptPc = "chklimit" /\ tcpActiveConns = maxTCPConnections
            /\ acceptPc' # acceptPc
          => acceptPc' = "reject" /\ tcpMu' = "free"]_vars

\* A connection was rejected at the limit while the listener was full.
C13_Witness ==
    /\ \E k \in Conns : conn[k] = "rejected"
    /\ tcpActiveConns = maxTCPConnections
    /\ Cardinality(InFlight) = maxTCPConnections

\* Call c of TCPServer.Shutdown has returned.
TcpReturned(c) == tsPc[c] = "returned"

\* No handler goroutine is running.
NoHandlerRunning == \A k \in Conns : handler[k] \in {"none", "done"}

\* C15: after any call of TCPServer.Shutdown has returned nil, no handler is
\* running, s.activeConns is zero and the gauge of listener "TCP" is zero.
C15_NilShutdownMeansNoConnections ==
    \A c \in Calls :
        TcpReturned(c) /\ tsRet[c] = TcpNil
            => NoHandlerRunning /\ tcpActiveConns = 0 /\ gauge = 0

\* C16: two calls of TCPServer.Shutdown return the same outcome.
C16_ShutdownTwiceConsistent ==
    \A c, d \in Calls :
        TcpReturned(c) /\ TcpReturned(d) => tsRet[c] = tsRet[d]

\* C17 (as stated): Shutdown returns nil if all handlers completed before ctx
\* was done; if ctx became done while a handler was outstanding it returns
\* the timeout error.
C17_ShutdownNilOrTimeout ==
    TcpReturned(FirstCall) =>
        IF tsCtx[FirstCall] /\ tsLate[FirstCall]
        THEN tsRet[FirstCall].kind = "timeout"
        ELSE tsRet[FirstCall] = TcpNil

\* C17 (amended): Shutdown returns nil only after the handler waitgroup
\* reached zero and the listener closed without error; it returns the timeout
\* error only if ctx is done, and always if it returns while handlers are
\* outstanding; N is s.activeConns read when the error is built; at the final
\* wait a done ctx always lets Shutdown return.
C17_ShutdownOutcome ==
    /\ [](/\ TcpReturned(FirstCall) =>
                /\ tsRet[FirstCall].kind \in {"nil", "close", "timeout"}
                /\ tsRet[FirstCall].kind \in {"nil", "close"}
                       => tcpDone /\ tcpWg = 0 /\ tcpActiveConns = 0
                /\ tsRet[FirstCall].kind = "timeout" => tsCtx[FirstCall]
                /\ ~tcpDone => tsRet[FirstCall].kind = "timeout"
          /\ tsPc[FirstCall] = "select" /\ tsCtx[FirstCall]
                => ENABLED TcpSelectTimeout(FirstCall))
    /\ [][tsPc[FirstCall] = "mkerr" /\ tsPc'[FirstCall] = "exit"
            => tsErr'[FirstCall] = [kind |-> "timeout", n |-> tcpActiveConns]]_vars

\* Shutdown returned the timeout error, naming at least one connection, while
\* a handler was still running.
C17_Witness ==
    /\ TcpReturned(FirstCall)
    /\ tsRet[FirstCall].kind = "timeout" /\ tsRet[FirstCall].n > 0
    /\ ~NoHandlerRunning

\* C18: once Shutdown has signalled shutdown (flag set, s.shutdown closed),
\* Start eventually returns from whichever point of the loop it is at; it
\* returns nil, or the context's error only if the context was cancelled.
C18_ShutdownStopsTcpStart ==
    /\ [](acceptPc = "returned" /\ socket # "none" /\ tcpShutdown
            => /\ tcpStartRet \in {"nil", "ctxErr"}
               /\ tcpStartRet = "ctxErr" => tcpCtx)
    /\ (tcpShutdown /\ TcpListening) ~> (acceptPc = "returned")

\* Start returned nil after it closed a connection that it had accepted
\* while Shutdown was in progress; the context was never cancelled.
C18_Witness ==
    /\ acceptPc = "returned" /\ tcpStartRet = "nil"
    /\ tcpShutdown /\ ~tcpCtx
    /\ \E k \in Conns : conn[k] = "refused"

----------------------------------------------------------------------------
\* HTTPServer.Start, the connection-limit middleware and HTTPServer.Shutdown
\* (http_server.go:51-104)

\* Everything that is not part of the HTTP listener.
nonHttpVars == <<mgrAll, tcpVars, auxVars>>

\* The owner of the ctx handed to Start cancels it.  Start never reads ctx.
HttpCancelCtx ==
    /\ ~httpCtx
    /\ httpCtx' = TRUE
    /\ UNCHANGED <<nonHttpVars, httpServer, inShutdown, httpSocket, httpPc,
                   httpStartRet, httpReqVars, httpShVars>>

\* The start task calls Start.
HttpStartCall ==
    /\ httpPc = "idle"
    /\ httpPc' = "new"
    /\ UNCHANGED <<nonHttpVars, httpCtx, httpServer, inShutdown, httpSocket,
                   httpStartRet, httpReqVars, httpShVars>>

\* s.server = &http.Server{...}: an unsynchronised write; a concurrent
\* Shutdown reads nil or the new server.
HttpNewServer ==
    /\ httpPc = "new"
    /\ httpServer' = TRUE
    /\ httpPc' = "serve"
    /\ UNCHANGED <<nonHttpVars, httpCtx, inShutdown, httpSocket, httpStartRet,
                   httpReqVars, httpShVars>>

\* ListenAndServe / ListenAndServeTLS: ErrServerClosed if the server was
\* already shut down; else the socket is bound, or Start returns the error
\* (of the bind, or of GetTLSConfig for the TLS listener).
HttpListen ==
    /\ httpPc = "serve"
    /\ IF inShutdown
       THEN /\ httpPc' = "returned"
            /\ httpStartRet' = "ErrServerClosed"
            /\ UNCHANGED httpSocket
       ELSE \/ /\ httpSocket' = "open"
               /\ httpPc' = "serving"
               /\ UNCHANGED httpStartRet
            \/ /\ httpPc' = "returned"
               /\ httpStartRet' = "err"
               /\ UNCHANGED httpSocket
    /\ UNCHANGED <<nonHttpVars, httpCtx, httpServer, inShutdown, httpReqVars,
                   httpShVars>>

\* What ends the serve loop: the server's shutdown; ctx is not consulted.
ServeEnds(down, cancelled) == down

\* The serve loop ends: Start returns http.ErrServerClosed.
HttpServeReturn ==
    /\ httpPc = "serving"
    /\ ServeEnds(inShutdown, httpCtx)
    /\ httpPc' = "returned"
    /\ httpStartRet' = "ErrServerClosed"
    /\ UNCHANGED <<nonHttpVars, httpCtx, httpServer, inShutdown, httpSocket,
                   httpReqVars, httpShVars>>

\* The server accepts a connection and reads a request on it; the requests
\* are numbered as they arrive.
ReqArrive(r) ==
    /\ httpPc = "serving" /\ httpSocket = "open"
    /\ req[r] = "idle"
    /\ \A q \in Reqs : q < r => req[q] # "idle"
    /\ req' = [req EXCEPT ![r] = "load"]
    /\ UNCHANGED <<nonHttpVars, httpStartVars, httpActiveConns, currentConns,
                   httpShVars>>

\* The limit test of the middleware: currentConns >= maxHTTPConnections.
HttpAtLimit(n) == n >= maxHTTPConnections

\* currentConns := atomic.LoadInt32(&s.activeConns) and the limit test: at
\* the limit the request is answered with 503.
ReqLoad(r) ==
    /\ req[r] = "load"
    /\ currentConns' = [currentConns EXCEPT ![r] = httpActiveConns]
    /\ req' = [req EXCEPT ![r] = IF HttpAtLimit(httpActiveConns)
                                 THEN "rejected" ELSE "add"]
    /\ UNCHANGED <<nonHttpVars, httpStartVars, httpActiveConns, httpShVars>>

\* atomic.AddInt32(&s.activeConns, 1); the request enters the wrapped handler.
ReqAdd(r) ==
    /\ req[r] = "add"
    /\ httpActiveConns' = httpActiveConns + 1
    /\ req' = [req EXCEPT ![r] = "handler"]
    /\ UNCHANGED <<nonHttpVars, httpStartVars, currentConns, httpShVars>>

\* next.ServeHTTP ends, by returning or by a panic; the deferred decrement
\* runs in both cases.
ReqServed(r) ==
    /\ req[r] = "handler"
    /\ req' = [req EXCEPT ![r] = "dec"]
    /\ UNCHANGED <<nonHttpVars, httpStartVars, httpActiveConns, currentConns,
                   httpShVars>>

\* The middleware returns without the decrement.
ReqNoDec(r) ==
    /\ req[r] = "dec"
    /\ req' = [req EXCEPT ![r] = "done"]
    /\ UNCHANGED <<nonHttpVars, httpStartVars, httpActiveConns, currentConns,
                   httpShVars>>

\* defer atomic.AddInt32(&s.activeConns, -1)
ReqDec(r) ==
    /\ req[r] = "dec"
    /\ httpActiveConns' = httpActiveConns - 1
    /\ req' = [req EXCEPT ![r] = "done"]
    /\ UNCHANGED <<nonHttpVars, httpStartVars, currentConns, httpShVars>>

ReqSteps(r) ==
    \/ ReqLoad(r)
    \/ ReqAdd(r)
    \/ ReqServed(r)
    \/ ReqDec(r)

\* A caller enters Shutdown as call c; the calls are numbered as they arrive.
HttpShutdownCall(c) ==
    /\ hsPc[c] = "idle"
    /\ \A d \in Calls : d < c => hsPc[d] # "idle"
    /\ hsPc' = [hsPc EXCEPT ![c] = "check"]
    /\ UNCHANGED <<nonHttpVars, httpStartVars, httpReqVars, hsCtx, hsRet>>

\* The ctx handed to call c is done.
HttpDeadlineExpires(c) ==
    /\ hsPc[c] \notin {"idle", "returned"}
    /\ ~hsCtx[c]
    /\ hsCtx' = [hsCtx EXCEPT ![c] = TRUE]
    /\ UNCHANGED <<nonHttpVars, httpStartVars, httpReqVars, hsPc, hsRet>>

\* Shutdown without the nil test: s.server.Shutdown(ctx) whatever s.server is.
HttpShutdownCheckNoNilTest(c) ==
    /\ hsPc[c] = "check"
    /\ hsPc' = [hsPc EXCEPT ![c] = "closing"]
    /\ UNCHANGED <<nonHttpVars, httpStartVars, httpReqVars, hsCtx, hsRet>>

\* if s.server == nil { return nil }
HttpShutdownCheck(c) ==
    /\ hsPc[c] = "check"
    /\ IF httpServer
       THEN hsPc' = [hsPc EXCEPT ![c] = "closing"] /\ UNCHANGED hsRet
       ELSE /\ hsPc' = [hsPc EXCEPT ![c] = "returned"]
            /\ hsRet' = [hsRet EXCEPT ![c] = "nil"]
    /\ UNCHANGED <<nonHttpVars, httpStartVars, httpReqVars, hsCtx>>

\* s.server.Shutdown(ctx) marks the server and closes its listener.
HttpServerShutdown(c) ==
    /\ hsPc[c] = "closing"
    /\ inShutdown' = TRUE
    /\ httpSocket' = IF httpSocket = "open" THEN "closed" ELSE httpSocket
    /\ hsPc' = [hsPc EXCEPT ![c] = "drain"]
    /\ UNCHANGED <<nonHttpVars, httpCtx, httpServer, httpPc, httpStartRet,
                   httpReqVars, hsCtx, hsRet>>

\* The requests whose connection is not idle.
ActiveReqs == {r \in Reqs : req[r] \in {"load", "add", "handler", "dec"}}

\* s.server.Shutdown(ctx) returns nil once no connection is active.
HttpDrained(c) ==
    /\ hsPc[c] = "drain"
    /\ ActiveReqs = {}
    /\ hsPc' = [hsPc EXCEPT ![c] = "returned"]
    /\ hsRet' = [hsRet EXCEPT ![c] = "nil"]
    /\ UNCHANGED <<nonHttpVars, httpStartVars, httpReqVars, hsCtx>>

\* s.server.Shutdown(ctx) returns ctx.Err() when ctx is done.
HttpDrainTimeout(c) ==
    /\ hsPc[c] = "drain"
    /\ hsCtx[c]
    /\ hsPc' = [hsPc EXCEPT ![c] = "returned"]
    /\ hsRet' = [hsRet EXCEPT ![c] = "ctxErr"]
    /\ UNCHANGED <<nonHttpVars, httpStartVars, httpReqVars, hsCtx>>

HttpShutdownSteps(c) ==
    \/ HttpShutdownCheck(c)
    \/ HttpServerShutdown(c)
    \/ HttpDrained(c)
    \/ HttpDrainTimeout(c)

HttpStartSteps ==
    \/ HttpNewServer
    \/ HttpListen
    \/ HttpServeReturn

HTTPNext ==
    \/ HttpCancelCtx
    \/ HttpStartCall
    \/ HttpStartSteps
    \/ \E r \in Reqs : ReqArrive(r)
    \/ \E r \in Reqs : ReqSteps(r)
    \/ \E c \in Calls : HttpShutdownCall(c)
    \/ \E c \in Calls : HttpDeadlineExpires(c)
    \/ \E c \in Calls : HttpShutdownSteps(c)

HTTPSpec == Init /\ [][HTTPNext]_vars

\* The Go scheduler runs every runnable goroutine: Start, the requests'
\* goroutines and the Shutdown callers keep taking the steps they can take.
\* Clients and the owners of the contexts are under no obligation.
HTTPFairSpec ==
    /\ HTTPSpec
    /\ WF_vars(HttpStartSteps)
    /\ \A r \in Reqs : WF_vars(ReqSteps(r))
    /\ \A c \in Calls : WF_vars(HttpShutdownSteps(c))

----------------------------------------------------------------------------
\* Properties of the HTTP listener

\* No HTTPServer.Shutdown call has been made yet.
NoHttpShutdownYet == \A c \in Calls : hsPc[c] = "idle"

\* C11: for the HTTP listener, cancelling the context passed to Start, with
\* no Shutdown call, makes a serving Start return; and so does a Shutdown
\* call in progress on a serving listener.
C11_CancelOrShutdownStopsListener ==
    /\ (httpCtx /\ httpPc = "serving" /\ NoHttpShutdownYet)
           ~> (httpPc = "returned" \/ ~NoHttpShutdownYet)
    /\ (httpPc = "serving" /\ \E c \in Calls : hsPc[c] \notin {"idle", "returned"})
           ~> (httpPc = "returned")

\* The requests inside the wrapped handler.
InHandler == {r \in Reqs : req[r] = "handler"}

\* C14: in every interleaving of concurrent requests, the number of requests
\* inside the wrapped handler, and s.activeConns, never exceed
\* maxHTTPConnections.
C14_LimitCheckedAtomically ==
    /\ Cardinality(InHandler) <= maxHTTPConnections
    /\ httpActiveConns <= maxHTTPConnections

\* Some HTTPServer.Shutdown call has returned.
HttpShutdownReturned == \E c \in Calls : hsPc[c] = "returned"

\* C20: once Shutdown has returned on the HTTP listener, the listener binds
\* no socket and accepts no connection any more.
C20_StoppedIsTerminal ==
    [][HttpShutdownReturned =>
          /\ httpSocket' = "open" => httpSocket = "open"
          /\ \A r \in Reqs : req[r] = "idle" => req'[r] = "idle"]_vars

\* C21: while Start has never been called on the HTTP listener (the Metrics
\* listener's Shutdown is the same code), a Shutdown call returns nil at its
\* first step and leaves the server, its socket and its requests as they were.
C21_ShutdownWithoutStart ==
    /\ [](httpPc = "idle" =>
            /\ ~httpServer /\ ~inShutdown /\ httpSocket = "none"
            /\ \A c \in Calls : hsPc[c] = "returned" => hsRet[c] = "nil")
    /\ [][\A c \in Calls :
            httpPc = "idle" /\ hsPc[c] = "check" /\ hsPc'[c] # "check"
                => /\ hsPc'[c] = "returned" /\ hsRet'[c] = "nil"
                   /\ UNCHANGED <<httpStartVars, httpReqVars>>]_vars

\* Two Shutdown calls have returned nil and Start has not been called.
C21_Witness ==
    /\ httpPc = "idle"
    /\ \A c \in Calls : hsPc[c] = "returned" /\ hsRet[c] = "nil"

----------------------------------------------------------------------------
\* The Manager with an HTTP and a TCP listener registered (main with only
\* the TCP listener enabled besides HTTP).  The Manager's start and shutdown
\* tasks call the listeners' Start and Shutdown; no client connects.

\* The positions of the two listeners in m.servers.
SysHttp == 1

SysTcp == 2

\* What the start task sees of a listener's Start: nil, http.ErrServerClosed
\* or another error.
TcpStartResult(r) == IF r = "nil" THEN "nil" ELSE "bind"

HttpStartResult(r) == IF r = "ErrServerClosed" THEN "ErrServerClosed" ELSE "bind"

\* Listener i's Start has returned e.
StartReturned(i, e) ==
    \/ i = SysHttp /\ httpPc = "returned" /\ e = HttpStartResult(httpStartRet)
    \/ i = SysTcp /\ acceptPc = "returned" /\ e = TcpStartResult(tcpStartRet)

\* Listener i's Shutdown, called by shutdown task c, has returned e.
ShutdownReturned(c, i, e) ==
    \/ /\ i = SysHttp /\ hsPc[c] = "returned"
       /\ e = IF hsRet[c] = "nil" THEN "nil" ELSE "serr"
    \/ /\ i = SysTcp /\ tsPc[c] = "returned"
       /\ e = IF tsRet[c] = TcpNil THEN "nil" ELSE "serr"

\* main: cancel() of the context that Manager.Start handed to every listener.
SysCancel ==
    /\ ~tcpCtx
    /\ tcpCtx' = TRUE
    /\ httpCtx' = TRUE
    /\ UNCHANGED <<mgrAll, socket, tcpListener, acceptPc, tcpStartRet, accepted,
                   fullAtAccept, tcpSharedVars, tcpConnVars, tcpShVars,
                   httpServer, inShutdown, httpSocket, httpPc, httpStartRet,
                   httpReqVars, httpShVars, auxVars>>

\* The start tasks run srv.Start(ctx).
SysHttpStart ==
    /\ task[SysHttp] = "running"
    /\ (HttpStartCall \/ HttpStartSteps)

SysTcpStart ==
    /\ task[SysTcp] = "running"
    /\ (TcpStartCall \/ TcpStartSteps)

SysTaskReturn(i) ==
    \E e \in StartResults : StartReturned(i, e) /\ TaskReturn(i, e)

\* main calls Manager.Shutdown once, and the shutdown completes before the
\* deadline of its context.
SysCall == 1

\* The shutdown tasks run srv.Shutdown(ctx).
SysHttpShutdown ==
    /\ shTask[SysCall][SysHttp] = "running"
    /\ (HttpShutdownCall(SysCall) \/ HttpShutdownSteps(SysCall))

SysTcpShutdown ==
    /\ shTask[SysCall][SysTcp] = "running"
    /\ \/ TcpShutdownCall(SysCall)
       \/ TcpShutdownSteps(SysCall)
       \/ TcpDoneTask

SysShTaskReturns(i) ==
    \E e \in ShutdownResults :
        ShutdownReturned(SysCall, i, e) /\ ShTaskReturns(SysCall, i, e)

SysNext ==
    \/ RegisterServer
    \/ ManagerStartCall
    \/ ManagerStartLoop
    \/ ManagerStartReturn
    \/ \E i \in Listeners : TaskCallStart(i)
    \/ SysCancel
    \/ SysHttpStart
    \/ SysTcpStart
    \/ \E i \in Listeners : SysTaskReturn(i)
    \/ ShutdownCall(SysCall)
    \/ ShutdownLoop(SysCall)
    \/ ShutdownLoopEnd(SysCall)
    \/ \E i \in Listeners : ShTaskCall(SysCall, i)
    \/ SysHttpShutdown
    \/ SysTcpShutdown
    \/ \E i \in Listeners : SysShTaskReturns(i)
    \/ \E i \in Listeners : ShTaskFinish(SysCall, i)
    \/ ShutdownCollect(SysCall)
    \/ DoneTask(SysCall)
    \/ ShutdownSelectDone(SysCall)

SysSpec == Init /\ [][SysNext]_vars

\* C19: with the HTTP and the TCP listener registered, once Manager.Start has
\* returned and Manager.Shutdown has then returned success, neither listener
\* holds an open listening socket.
C19_NoSocketAfterShutdown ==
    /\ Len(servers) = 2 /\ startPc = "returned"
    /\ shPc[SysCall] = "returned" /\ result[SysCall].kind = "nil"
    => socket # "open" /\ httpSocket # "open"

----------------------------------------------------------------------------
\* The gRPC listener: Start, the RPCs and Shutdown
\* (quic_server.go:123-181)

\* Everything that is not part of the gRPC listener.
nonGrpcVars == <<mgrAll, tcpVars, httpVars, thVars, respVars, cfgVars, tlsVars>>

\* The owner of the ctx handed to Start cancels it.
GrpcCancelCtx ==
    /\ ~grpcCtx
    /\ grpcCtx' = TRUE
    /\ UNCHANGED <<nonGrpcVars, grpcPc, grpcStartRet, grpcServe, grpcSrv,
                   grpcRpcs, grpcShVars>>

\* The start task calls Start.
GrpcStartCall ==
    /\ grpcPc = "idle"
    /\ grpcPc' = "listen"
    /\ UNCHANGED <<nonGrpcVars, grpcCtx, grpcStartRet, grpcServe, grpcSrv,
                   grpcRpcs, grpcShVars>>

\* net.Listen: the socket is bound, or Start returns the error.
GrpcListen ==
    /\ grpcPc = "listen"
    /\ \/ grpcPc' = "new" /\ UNCHANGED grpcStartRet
       \/ grpcPc' = "returned" /\ grpcStartRet' = "err"
    /\ UNCHANGED <<nonGrpcVars, grpcCtx, grpcServe, grpcSrv, grpcRpcs,
                   grpcShVars>>

\* s.server = grpc.NewServer(opts...): an unsynchronised write; a concurrent
\* Shutdown reads nil or the new server.
GrpcNewServer ==
    /\ grpcPc = "new"
    /\ grpcSrv' = "new"
    /\ grpcPc' = "spawn"
    /\ UNCHANGED <<nonGrpcVars, grpcCtx, grpcStartRet, grpcServe, grpcRpcs,
                   grpcShVars>>

\* go func() { errCh <- s.server.Serve(listener) }()
GrpcSpawnServe ==
    /\ grpcPc = "spawn"
    /\ grpcServe' = "start"
    /\ grpcPc' = "select"
    /\ UNCHANGED <<nonGrpcVars, grpcCtx, grpcStartRet, grpcSrv, grpcRpcs,
                   grpcShVars>>

\* Serve begins: it fails with ErrServerStopped on a server that was already
\* told to stop, else it accepts connections.
GrpcServeBegin ==
    /\ grpcServe = "start"
    /\ IF grpcSrv = "new"
       THEN grpcSrv' = "serving" /\ grpcServe' = "serving"
       ELSE grpcServe' = "err" /\ UNCHANGED grpcSrv
    /\ UNCHANGED <<nonGrpcVars, grpcCtx, grpcPc, grpcStartRet, grpcRpcs,
                   grpcShVars>>

\* Serve returns nil once the server's listener was closed by GracefulStop
\* or Stop; the value goes to the buffered errCh.
GrpcServeEnd ==
    /\ grpcServe = "serving"
    /\ grpcSrv \in {"draining", "stopped"}
    /\ grpcServe' = "nil"
    /\ UNCHANGED <<nonGrpcVars, grpcCtx, grpcPc, grpcStartRet, grpcSrv,
                   grpcRpcs, grpcShVars>>

\* select of Start, case err := <-errCh: return err
GrpcSelectErr ==
    /\ grpcPc = "select"
    /\ grpcServe \in {"nil", "err"}
    /\ grpcStartRet' = grpcServe
    /\ grpcPc' = "returned"
    /\ UNCHANGED <<nonGrpcVars, grpcCtx, grpcServe, grpcSrv, grpcRpcs,
                   grpcShVars>>

\* select of Start, case <-ctx.Done(): s.server.GracefulStop() begins; the
\* server accepts nothing more.
GrpcSelectCtx ==
    /\ grpcPc = "select"
    /\ grpcCtx
    /\ grpcSrv' = IF grpcSrv = "stopped" THEN "stopped" ELSE "draining"
    /\ grpcPc' = "gstop"
    /\ UNCHANGED <<nonGrpcVars, grpcCtx, grpcStartRet, grpcServe, grpcRpcs,
                   grpcShVars>>

\* GracefulStop has nothing left to wait for: no RPC is in flight, or the
\* server was stopped.
GracefulStopDone(srv, rpcs) == rpcs = 0 \/ srv = "stopped"

\* GracefulStop returns in Start: return ctx.Err()
GrpcStartStopped ==
    /\ grpcPc = "gstop"
    /\ GracefulStopDone(grpcSrv, grpcRpcs)
    /\ grpcSrv' = "stopped"
    /\ grpcStartRet' = "ctxErr"
    /\ grpcPc' = "returned"
    /\ UNCHANGED <<nonGrpcVars, grpcCtx, grpcServe, grpcRpcs, grpcShVars>>

\* A client starts an RPC on the serving server.
RpcArrive ==
    /\ grpcSrv = "serving" /\ grpcServe = "serving"
    /\ grpcRpcs < MaxRpcs
    /\ grpcRpcs' = grpcRpcs + 1
    /\ UNCHANGED <<nonGrpcVars, grpcStartVars, grpcSrv, grpcShVars>>

\* An RPC in flight completes.
RpcDone ==
    /\ grpcRpcs > 0
    /\ grpcRpcs' = grpcRpcs - 1
    /\ UNCHANGED <<nonGrpcVars, grpcStartVars, grpcSrv, grpcShVars>>

GrpcStartSteps ==
    \/ GrpcListen
    \/ GrpcNewServer
    \/ GrpcSpawnServe
    \/ GrpcSelectErr
    \/ GrpcSelectCtx
    \/ GrpcStartStopped

GrpcServeSteps ==
    \/ GrpcServeBegin
    \/ GrpcServeEnd

\* A caller enters Shutdown as call c; the calls are numbered as they arrive.
GrpcShutdownCall(c) ==
    /\ gsPc[c] = "idle"
    /\ \A d \in Calls : d < c => gsPc[d] # "idle"
    /\ gsPc' = [gsPc EXCEPT ![c] = "check"]
    /\ UNCHANGED <<nonGrpcVars, grpcStartVars, grpcSrv, grpcRpcs, gsCtx,
                   gsTask, gsFirst, gsRet>>

\* The ctx handed to call c is done.
GrpcDeadlineExpires(c) ==
    /\ gsPc[c] \notin {"idle", "returned"}
    /\ ~gsCtx[c]
    /\ gsCtx' = [gsCtx EXCEPT ![c] = TRUE]
    /\ gsFirst' = [gsFirst EXCEPT ![c] = IF @ = "none" THEN "ctx" ELSE @]
    /\ UNCHANGED <<nonGrpcVars, grpcStartVars, grpcSrv, grpcRpcs, gsPc,
                   gsTask, gsRet>>

\* if s.server == nil { return nil }
GrpcShutdownCheck(c) ==
    /\ gsPc[c] = "check"
    /\ IF grpcSrv = "nil"
       THEN /\ gsPc' = [gsPc EXCEPT ![c] = "returned"]
            /\ gsRet' = [gsRet EXCEPT ![c] = "nil"]
       ELSE /\ gsPc' = [gsPc EXCEPT ![c] = "spawn"]
            /\ UNCHANGED gsRet
    /\ UNCHANGED <<nonGrpcVars, grpcStartVars, grpcSrv, grpcRpcs, gsCtx,
                   gsTask, gsFirst>>

\* stopped := make(chan struct{}); go func() { ... }()
GrpcSpawnStop(c) ==
    /\ gsPc[c] = "spawn"
    /\ gsTask' = [gsTask EXCEPT ![c] = "begin"]
    /\ gsPc' = [gsPc EXCEPT ![c] = "select"]
    /\ UNCHANGED <<nonGrpcVars, grpcStartVars, grpcSrv, grpcRpcs, gsCtx,
                   gsFirst, gsRet>>

\* The task: s.server.GracefulStop() begins; the server accepts nothing more.
GrpcStopBegin(c) ==
    /\ gsTask[c] = "begin"
    /\ grpcSrv' = IF grpcSrv = "stopped" THEN "stopped" ELSE "draining"
    /\ gsTask' = [gsTask EXCEPT ![c] = "wait"]
    /\ UNCHANGED <<nonGrpcVars, grpcStartVars, grpcRpcs, gsPc, gsCtx, gsFirst,
                   gsRet>>

\* The task: GracefulStop returns and close(stopped).
GrpcStopEnd(c) ==
    /\ gsTask[c] = "wait"
    /\ GracefulStopDone(grpcSrv, grpcRpcs)
    /\ grpcSrv' = "stopped"
    /\ gsTask' = [gsTask EXCEPT ![c] = "closed"]
    /\ gsFirst' = [gsFirst EXCEPT ![c] = IF @ = "none" THEN "stopped" ELSE @]
    /\ UNCHANGED <<nonGrpcVars, grpcStartVars, grpcRpcs, gsPc, gsCtx, gsRet>>

\* select of Shutdown, case <-stopped: return nil.  The case is ready as
\* soon as stopped is closed, whether or not ctx was done before.
GrpcSelectStopped(c) ==
    /\ gsPc[c] = "select"
    /\ gsTask[c] = "closed"
    /\ gsRet' = [gsRet EXCEPT ![c] = "nil"]
    /\ gsPc' = [gsPc EXCEPT ![c] = "returned"]
    /\ UNCHANGED <<nonGrpcVars, grpcStartVars, grpcSrv, grpcRpcs, gsCtx,
                   gsTask, gsFirst>>

\* select of Shutdown, case <-ctx.Done()
GrpcSelectTimeout(c) ==
    /\ gsPc[c] = "select"
    /\ gsCtx[c]
    /\ gsPc' = [gsPc EXCEPT ![c] = "force"]
    /\ UNCHANGED <<nonGrpcVars, grpcStartVars, grpcSrv, grpcRpcs, gsCtx,
                   gsTask, gsFirst, gsRet>>

\* s.server.Stop() ends every RPC in flight; return the timeout error.
GrpcForceStop(c) ==
    /\ gsPc[c] = "force"
    /\ grpcSrv' = "stopped"
    /\ grpcRpcs' = 0
    /\ gsRet' = [gsRet EXCEPT ![c] = "timeout"]
    /\ gsPc' = [gsPc EXCEPT ![c] = "returned"]
    /\ UNCHANGED <<nonGrpcVars, grpcStartVars, gsCtx, gsTask, gsFirst>>

GrpcShutdownSteps(c) ==
    \/ GrpcShutdownCheck(c)
    \/ GrpcSpawnStop(c)
    \/ GrpcSelectStopped(c)
    \/ GrpcSelectTimeout(c)
    \/ GrpcForceStop(c)

GrpcStopTask(c) ==
    \/ GrpcStopBegin(c)
    \/ GrpcStopEnd(c)

GRPCNext ==
    \/ GrpcCancelCtx
    \/ GrpcStartCall
    \/ GrpcStartSteps
    \/ GrpcServeSteps
    \/ RpcArrive
    \/ RpcDone
    \/ \E c \in Calls : GrpcShutdownCall(c)
    \/ \E c \in Calls : GrpcDeadlineExpires(c)
    \/ \E c \in Calls : GrpcShutdownSteps(c)
    \/ \E c \in Calls : GrpcStopTask(c)

GRPCSpec == Init /\ [][GRPCNext]_vars

----------------------------------------------------------------------------
\* Properties of the gRPC listener

\* C22: a Shutdown call that found a server returns nil exactly when its
\* graceful stop completed before its ctx was done, and otherwise returns the
\* timeout error with the server force-stopped; a call that found no server
\* returns nil and leaves the server nil.
C22_GracefulOrTimeout ==
    \A c \in Calls : gsPc[c] = "returned" =>
        IF gsTask[c] = "none"
        THEN gsRet[c] = "nil"
        ELSE /\ gsRet[c] = "nil" <=> gsFirst[c] = "stopped"
             /\ gsRet[c] = "timeout" <=> gsFirst[c] = "ctx"
             /\ gsRet[c] = "timeout" => grpcSrv = "stopped"

----------------------------------------------------------------------------
\* TCPHandler (internal/handlers/tcp.go:18-67), with the connection closed
\* from outside at any time (TCPServer.Shutdown, tcp_server.go:172-179)

\* Everything that is not part of a TCPHandler invocation.
nonThVars == <<mgrAll, tcpVars, httpVars, grpcVars, respVars, cfgVars, tlsVars>>

\* handleConnection calls TCPHandler on an accepted connection: lines 19-37
\* register the deferred recover and the deferred Close.
TcpHandlerCall(k) ==
    /\ thPc[k] = "idle"
    /\ \A j \in Invocations : j < k => thPc[j] # "idle"
    /\ thPc' = [thPc EXCEPT ![k] = "track"]
    /\ UNCHANGED <<nonThVars, thOps, thForced, thWire, thError, thGauge>>

\* Shutdown's s.connections.Range closes the connection under the handler.
TcpHandlerForceClose(k) ==
    /\ thPc[k] \notin {"idle", "returned"}
    /\ ~thForced[k]
    /\ thForced' = [thForced EXCEPT ![k] = TRUE]
    /\ UNCHANGED <<nonThVars, thPc, thOps, thWire, thError, thGauge>>

\* metrics.ConnectionOpened("TCP"); the gauge and the request record are
\* deferred.
TcpHandlerTrack(k) ==
    /\ thPc[k] = "track"
    /\ thGauge' = thGauge + 1
    /\ thPc' = [thPc EXCEPT ![k] = "build"]
    /\ UNCHANGED <<nonThVars, thOps, thForced, thWire, thError>>

\* buildTCPResponse: it returns the response, or panics and the deferred
\* calls run.
TcpHandlerBuild(k) ==
    /\ thPc[k] = "build"
    /\ \/ thPc' = [thPc EXCEPT ![k] = "marshal"] /\ UNCHANGED thError
       \/ /\ thPc' = [thPc EXCEPT ![k] = "untrack"]
          /\ thError' = [thError EXCEPT ![k] = "panicking"]
    /\ UNCHANGED <<nonThVars, thOps, thForced, thWire, thGauge>>

\* json.Marshal fails and nothing is written: the marshal error is recorded
\* and the function ends there, without its deferred calls.
TcpHandlerMarshalNoDefer(k) ==
    /\ thPc[k] = "marshal"
    /\ \/ thPc' = [thPc EXCEPT ![k] = "write"] /\ UNCHANGED thError
       \/ /\ thPc' = [thPc EXCEPT ![k] = "returned"]
          /\ thError' = [thError EXCEPT ![k] = "marshal_error"]
    /\ UNCHANGED <<nonThVars, thOps, thForced, thWire, thGauge>>

\* data, err := json.Marshal(response); on an error the marshal error is
\* recorded and the function returns through its deferred calls.
TcpHandlerMarshal(k) ==
    /\ thPc[k] = "marshal"
    /\ \/ thPc' = [thPc EXCEPT ![k] = "write"] /\ UNCHANGED thError
       \/ /\ thPc' = [thPc EXCEPT ![k] = "untrack"]
          /\ thError' = [thError EXCEPT ![k] = "marshal_error"]
    /\ UNCHANGED <<nonThVars, thOps, thForced, thWire, thGauge>>

\* conn.Write(data): the document reaches the client, or the write fails
\* (always on a connection closed from outside) and the error is recorded.
TcpHandlerWrite(k) ==
    /\ thPc[k] = "write"
    /\ thOps' = [thOps EXCEPT ![k] = Append(@, "write")]
    /\ \/ /\ ~thForced[k]
          /\ thWire' = [thWire EXCEPT ![k] = @ + 1]
          /\ UNCHANGED thError
       \/ /\ thError' = [thError EXCEPT ![k] = "write_error"]
          /\ UNCHANGED thWire
    /\ thPc' = [thPc EXCEPT ![k] = "untrack"]
    /\ UNCHANGED <<nonThVars, thForced, thGauge>>

\* The deferred metrics.RecordRequest and metrics.ConnectionClosed("TCP").
TcpHandlerUntrack(k) ==
    /\ thPc[k] = "untrack"
    /\ thGauge' = thGauge - 1
    /\ thPc' = [thPc EXCEPT ![k] = "close"]
    /\ UNCHANGED <<nonThVars, thOps, thForced, thWire, thError>>

\* The deferred conn.Close(): its error is only logged; then the deferred
\* recover records a panic, and TCPHandler returns.
TcpHandlerClose(k) ==
    /\ thPc[k] = "close"
    /\ thOps' = [thOps EXCEPT ![k] = Append(@, "close")]
    /\ thError' = [thError EXCEPT ![k] = IF @ = "panicking" THEN "panic" ELSE @]
    /\ thPc' = [thPc EXCEPT ![k] = "returned"]
    /\ UNCHANGED <<nonThVars, thForced, thWire, thGauge>>

TcpHandlerSteps(k) ==
    \/ TcpHandlerTrack(k)
    \/ TcpHandlerBuild(k)
    \/ TcpHandlerMarshal(k)
    \/ TcpHandlerWrite(k)
    \/ TcpHandlerUntrack(k)
    \/ TcpHandlerClose(k)

THNext ==
    \/ \E k \in Invocations : TcpHandlerCall(k)
    \/ \E k \in Invocations : TcpHandlerForceClose(k)
    \/ \E k \in Invocations : TcpHandlerSteps(k)

HandlerSpec == Init /\ [][THNext]_vars

\* Number of entries of the sequence ops that are equal to op.
CountOps(ops, op) == Cardinality({i \in 1..Len(ops) : ops[i] = op})

\* C23: every invocation of TCPHandler calls Write at most once and no more
\* than one document reaches the client; once it has returned it has called
\* Close exactly once, as its last call on the connection, on every path; it
\* never calls Write after Close.
C23_OneWriteThenOneClose ==
    \A k \in Invocations :
        /\ CountOps(thOps[k], "write") <= 1
        /\ CountOps(thOps[k], "close") <= 1
        /\ thWire[k] <= CountOps(thOps[k], "write")
        /\ \A i \in 1..Len(thOps[k]) :
               thOps[k][i] = "close" => i = Len(thOps[k])
        /\ thPc[k] = "returned" =>
               /\ CountOps(thOps[k], "close") = 1
               /\ thOps[k][Len(thOps[k])] = "close"

\* The four paths have all been taken: one invocation returned after a
\* marshal failure without a write, and another after a write that failed on
\* a connection closed from outside, so that its own Close returned an error.
C23_Witness ==
    /\ \E k \in Invocations :
           /\ thPc[k] = "returned" /\ thError[k] = "marshal_error"
           /\ thOps[k] = <<"close">>
    /\ \E k \in Invocations :
           /\ thPc[k] = "returned" /\ thError[k] = "write_error"
           /\ thForced[k] /\ thOps[k] = <<"write", "close">>

----------------------------------------------------------------------------
\* extractIP and NewBaseResponse (src/unnamed/part_019:41-72)

\* Everything that is not part of the base response.
nonRespVars == <<mgrAll, tcpVars, httpVars, grpcVars, thVars, cfgVars, tlsVars>>

\* The strings of at most n characters.
RECURSIVE AddrsUpTo(_)
AddrsUpTo(n) ==
    IF n = 0 THEN {<<>>}
    ELSE LET shorter == AddrsUpTo(n - 1)
         IN  shorter \cup {Append(a, c) : a \in {b \in shorter : Len(b) = n - 1},
                                          c \in AddrChars}

Addrs == AddrsUpTo(MaxAddrLen)

\* Position of the first c in str, 0 if there is none.
IndexByte(str, c) ==
    LET at == {i \in 1..Len(str) : str[i] = c}
    IN  IF at = {} THEN 0 ELSE CHOOSE i \in at : \A j \in at : i <= j

\* Position of the last c in str, 0 if there is none.
LastIndexByte(str, c) ==
    LET at == {i \in 1..Len(str) : str[i] = c}
    IN  IF at = {} THEN 0 ELSE CHOOSE i \in at : \A j \in at : i >= j

SplitError == [host |-> <<>>, port |-> <<>>, err |-> TRUE]

\* The port starts after the first colon, not after the last one.
PortColonFirst(hostport) == IndexByte(hostport, ":")

\* net.SplitHostPort: the port starts after the last colon.
PortColon(hostport) == LastIndexByte(hostport, ":")

\* net.SplitHostPort(hostport), as called by extractIP: the host before the
\* last colon, with its brackets removed, and the port after it; an error if
\* there is no colon, a colon in an unbracketed host, a bracket out of place.
SplitHostPort(hostport) ==
    LET n == Len(hostport)
        i == PortColon(hostport)
        end == IndexByte(hostport, "]")
        bracketed == hostport[1] = "["
        host == IF bracketed THEN SubSeq(hostport, 2, end - 1)
                ELSE SubSeq(hostport, 1, i - 1)
        \* nothing before j may be "[", nothing before k may be "]"
        j == IF bracketed THEN 2 ELSE 1
        k == IF bracketed THEN end + 1 ELSE 1
    IN  IF i = 0 THEN SplitError
        ELSE IF bracketed /\ (end = 0 \/ end + 1 # i) THEN SplitError
        ELSE IF ~bracketed /\ IndexByte(host, ":") # 0 THEN SplitError
        ELSE IF IndexByte(SubSeq(hostport, j, n), "[") # 0 THEN SplitError
        ELSE IF IndexByte(SubSeq(hostport, k, n), "]") # 0 THEN SplitError
        ELSE [host |-> host, port |-> SubSeq(hostport, i + 1, n), err |-> FALSE]

\* extractIP(remoteAddr)
extractIP(remoteAddr) ==
    IF remoteAddr = <<>> THEN <<>>
    ELSE LET split == SplitHostPort(remoteAddr)
         IN  IF split.err THEN remoteAddr ELSE split.host

\* One call of NewBaseResponse(cfg, listener, remoteAddr): SourceIP is
\* extractIP(remoteAddr).  The calls share no state.
NewBaseResponse ==
    /\ ~baseResponse.built
    /\ \E remoteAddr \in Addrs :
           baseResponse' = [built |-> TRUE, remoteAddr |-> remoteAddr,
                            SourceIP |-> extractIP(remoteAddr)]
    /\ UNCHANGED nonRespVars

RespNext == NewBaseResponse

RespSpec == Init /\ [][RespNext]_vars

\* str has none of the characters of the set chars.
NoChar(str, chars) == \A i \in 1..Len(str) : str[i] \notin chars

\* addr has the form host:port with the colon at position i: either
\* host ":" port, where neither part has a colon or a bracket, or
\* "[" host "]" ":" port, where host has no bracket and port has no colon
\* and no bracket.
HostPortAt(addr, i) ==
    /\ addr[i] = ":"
    /\ NoChar(SubSeq(addr, i + 1, Len(addr)), {":", "[", "]"})
    /\ \/ NoChar(SubSeq(addr, 1, i - 1), {":", "[", "]"})
       \/ /\ i >= 3 /\ addr[1] = "[" /\ addr[i - 1] = "]"
          /\ NoChar(SubSeq(addr, 2, i - 2), {"[", "]"})

\* The host of an address of the form host:port with the colon at i.
HostAt(addr, i) ==
    IF addr[1] = "[" THEN SubSeq(addr, 2, i - 2) ELSE SubSeq(addr, 1, i - 1)

\* C24: the SourceIP of a response is the empty string for the empty remote
\* address, the host part, without brackets, for a remote address of the
\* form host:port, and the remote address itself in every other case.
C24_SourceIPIsHost ==
    baseResponse.built =>
        LET addr == baseResponse.remoteAddr
            ip == baseResponse.SourceIP
            colons == {i \in 1..Len(addr) : HostPortAt(addr, i)}
        IN  /\ addr = <<>> => ip = <<>>
            /\ \A i \in colons : ip = HostAt(addr, i)
            /\ colons = {} => ip = addr

\* A response was built from the bracketed address [a:a]:a, and its
\* SourceIP is a:a.
C24_Witness ==
    /\ baseResponse.built
    /\ baseResponse.remoteAddr = <<"[", "a", ":", "a", "]", ":", "a">>
    /\ baseResponse.SourceIP = <<"a", ":", "a">>

----------------------------------------------------------------------------
\* config.Load (internal/config/config.go:29-80)

\* Everything that is not part of the configuration.
nonCfgVars == <<mgrAll, tcpVars, httpVars, grpcVars, thVars, respVars, tlsVars>>

\* logrus.ParseLevel: the level, or an error for a name it does not know.
ParseLevel(name) ==
    IF name \in {"panic", "fatal", "error", "warn", "warning", "info",
                 "debug", "trace"}
    THEN [lvl |-> IF name = "warning" THEN "warn" ELSE name, err |-> FALSE]
    ELSE [lvl |-> "none", err |-> TRUE]

\* One call of Load with ECHO_APP_MESSAGE of n bytes and ECHO_APP_LOG_LEVEL
\* set to level: Message is the value of the variable as it is; the only
\* error is the one of ParseLevel; the global log level is set.
Load ==
    /\ ~loaded.called
    /\ \E n \in 0..MaxEnvLen, level \in EnvLogLevels :
           LET parsed == ParseLevel(level)
           IN  IF parsed.err
               THEN /\ loaded' = [called |-> TRUE, env |-> n, cfg |-> "nil",
                                  Message |-> 0, LogLevel |-> "none",
                                  err |-> "not a valid logrus Level"]
                    /\ UNCHANGED logrusLevel
               ELSE /\ loaded' = [called |-> TRUE, env |-> n, cfg |-> "set",
                                  Message |-> n, LogLevel |-> parsed.lvl,
                                  err |-> "nil"]
                    /\ logrusLevel' = parsed.lvl
    /\ UNCHANGED nonCfgVars

CfgNext == Load

CfgSpec == Init /\ [][CfgNext]_vars

\* C25: Load returns no configuration and an error about the message length
\* for every message longer than MaxMessageLength bytes; for every message of
\* 0 to MaxMessageLength bytes (and a log level that parses) it returns a
\* configuration that carries the message unchanged.
C25_MessageLengthValidated ==
    loaded.called =>
        /\ loaded.env > MaxMessageLength =>
               loaded.cfg = "nil" /\ loaded.err = "message length"
        /\ loaded.env <= MaxMessageLength
             /\ loaded.err # "not a valid logrus Level" =>
               /\ loaded.cfg = "set" /\ loaded.err = "nil"
               /\ loaded.Message = loaded.env

----------------------------------------------------------------------------
\* handlers.GetTLSConfig (metrics_server_test.go:345-359)

\* Everything that is not part of the certificate cache.
nonTlsVars == <<mgrAll, tcpVars, httpVars, grpcVars, thVars, respVars,
                cfgVars>>

\* A listener's Start calls GetTLSConfig; the calls are numbered as they
\* arrive and may overlap.
GetTLSConfigCall(c) ==
    /\ gtPc[c] = "idle"
    /\ \A d \in TlsCalls : d < c => gtPc[d] # "idle"
    /\ gtPc' = [gtPc EXCEPT ![c] = "once"]
    /\ UNCHANGED <<nonTlsVars, tlsCert, tlsCertOnce, tlsCertErr, generated,
                   gtRet>>

\* A once that runs its function on every call that finds no run in
\* progress.
OnceRunsAgain(once) == once \in {"new", "done"}

\* sync.Once runs its function for the first caller only.
OnceRuns(once) == once = "new"

\* tlsCertOnce.Do: this caller runs the function.
TlsOnceEnter(c) ==
    /\ gtPc[c] = "once"
    /\ OnceRuns(tlsCertOnce)
    /\ tlsCertOnce' = "running"
    /\ gtPc' = [gtPc EXCEPT ![c] = "generate"]
    /\ UNCHANGED <<nonTlsVars, tlsCert, tlsCertErr, generated, gtRet>>

\* tlsCert, tlsCertErr = utils.GenerateSelfSignedCert(): fresh key material
\* on every call of the generator, or an error; the once is done.
TlsGenerate(c) ==
    /\ gtPc[c] = "generate"
    /\ generated' = generated + 1
    /\ \/ tlsCert' = generated + 1 /\ tlsCertErr' = FALSE
       \/ tlsCert' = 0 /\ tlsCertErr' = TRUE
    /\ tlsCertOnce' = "done"
    /\ gtPc' = [gtPc EXCEPT ![c] = "check"]
    /\ UNCHANGED <<nonTlsVars, gtRet>>

\* tlsCertOnce.Do returns without running the function: the once is done
\* (a caller that finds it running waits until then).
TlsOnceSkip(c) ==
    /\ gtPc[c] = "once"
    /\ tlsCertOnce = "done"
    /\ gtPc' = [gtPc EXCEPT ![c] = "check"]
    /\ UNCHANGED <<nonTlsVars, tlsCert, tlsCertOnce, tlsCertErr, generated,
                   gtRet>>

\* if tlsCertErr != nil { return nil, tlsCertErr }; else a new tls.Config
\* with the cached certificate and MinVersion tls.VersionTLS12.
GetTLSConfigReturn(c) ==
    /\ gtPc[c] = "check"
    /\ gtRet' = [gtRet EXCEPT ![c] =
                    IF tlsCertErr
                    THEN [cfg |-> "nil", cert |-> 0, MinVersion |-> "none",
                          err |-> TRUE]
                    ELSE [cfg |-> "set", cert |-> tlsCert,
                          MinVersion |-> "TLS12", err |-> FALSE]]
    /\ gtPc' = [gtPc EXCEPT ![c] = "returned"]
    /\ UNCHANGED <<nonTlsVars, tlsCert, tlsCertOnce, tlsCertErr, generated>>

GetTLSConfigSteps(c) ==
    \/ TlsOnceEnter(c)
    \/ TlsGenerate(c)
    \/ TlsOnceSkip(c)
    \/ GetTLSConfigReturn(c)

TlsNext ==
    \/ \E c \in TlsCalls : GetTLSConfigCall(c)
    \/ \E c \in TlsCalls : GetTLSConfigSteps(c)

TlsSpec == Init /\ [][TlsNext]_vars

\* The calls of GetTLSConfig that returned a configuration.
TlsSucceeded == {c \in TlsCalls : gtPc[c] = "returned" /\ ~gtRet[c].err}

\* C26: the certificate generator runs at most once however the calls of
\* GetTLSConfig are interleaved, and every call that succeeds returns a
\* configuration with the one generated certificate and minimum version
\* TLS 1.2.
C26_CertificateGeneratedOnce ==
    /\ generated <= 1
    /\ \A c \in TlsSucceeded :
           /\ gtRet[c].cfg = "set"
           /\ gtRet[c].cert = 1
           /\ gtRet[c].MinVersion = "TLS12"
    /\ \A c, d \in TlsSucceeded : gtRet[c].cert = gtRet[d].cert

\* Every call has returned a configuration, after a single run of the
\* generator.
C26_Witness ==
    /\ TlsSucceeded = TlsCalls
    /\ generated = 1

----------------------------------------------------------------------------
\* Properties of the TCP listener's handler waitgroup

\* The connections whose handler goroutine has been spawned and has not yet
\* run s.wg.Done().
BeforeDone == {k \in Conns : handler[k] \notin {"none", "done"}}

\* C27: the waitgroup counter is never negative and counts exactly the
\* wg.Add(1) calls whose wg.Done() has not yet run: the one of the accept
\* loop between Add and the spawn, and one per handler goroutine; a
\* connection gets a handler only by being admitted, once; and once Start
\* has returned the counter eventually returns to zero.
C27_EveryAddGetsOneDone ==
    /\ [](/\ tcpWg >= 0
          /\ tcpWg = Cardinality(BeforeDone)
                       + (IF acceptPc = "inc" THEN 1 ELSE 0)
          /\ \A k \in Conns : handler[k] # "none" <=> conn[k] = "dispatched")
    /\ [][\A k \in Conns :
            /\ handler[k] = "none" /\ handler'[k] # "none"
                 => acceptPc = "inc" /\ accepted = k /\ handler'[k] = "store"
            /\ handler[k] = "done" => handler'[k] = "done"]_vars
    /\ (acceptPc = "returned") ~> (tcpWg = 0)

\* Start has returned and the waitgroup is back at zero after a handler ran
\* to its end on a connection that Shutdown had closed under it.
C27_Witness ==
    /\ acceptPc = "returned" /\ tcpWg = 0
    /\ \E k \in Conns : handler[k] = "done" /\ closes[k] = 2

\* A step of the accept loop that runs s.wg.Add(1) or spawns a handler.
AddsOrSpawns ==
    \/ tcpWg' > tcpWg
    \/ \E k \in Conns : handler[k] = "none" /\ handler'[k] # "none"

\* C28 (as stated): every wg.Add(1) and every handler spawn happens while
\* s.shuttingDown is still 0.
C28_NoSpawnAfterFlag ==
    [][AddsOrSpawns => tcpShuttingDown = 0]_vars

\* C28 (amended): every wg.Add(1) happens with the mutex held by the accept
\* loop after it read s.shuttingDown as 0 in that critical section, and every
\* spawn follows such an Add; a read of the flag made after the store admits
\* nothing: the connection is refused and Start returns.
C28_NoAdmissionAfterFlagRead ==
    /\ [][tcpWg' > tcpWg => acceptPc = "add" /\ tcpMu = "start"]_vars
    /\ [][(\E k \in Conns : handler[k] = "none" /\ handler'[k] # "none")
             => acceptPc = "inc"]_vars
    /\ [](acceptPc \in {"chkflag", "chklimit", "add"} => tcpMu = "start")
    /\ [][acceptPc' \in {"chklimit", "add"} /\ acceptPc \notin {"chklimit", "add"}
             => acceptPc = "chkflag" /\ tcpShuttingDown = 0]_vars
    /\ [][acceptPc = "chkflag" /\ tcpShuttingDown = 1 /\ acceptPc' # "chkflag"
             => acceptPc' = "refuse"]_vars
    /\ [](acceptPc = "refuse" => tcpShuttingDown = 1 /\ tcpMu = "free")

\* With the flag set, one connection has a handler and a later one, whose
\* flag read came after the store, was refused.
C28_Witness ==
    /\ tcpShuttingDown = 1
    /\ \E k, j \in Conns :
           handler[k] # "none" /\ conn[j] = "refused" /\ k < j

\* The once body of Shutdown has passed its Lock/Unlock barrier.
PastBarrier ==
    tsPc[FirstCall] \in {"spawn", "select", "mkerr", "exit", "returned"}

\* C29: once Shutdown has passed its barrier no wg.Add(1) runs any more and
\* the accept loop is not between its flag read and its wg.Add(1), so the
\* counter covers every admitted connection: when the waiting goroutine has
\* seen the waitgroup empty, every handler that was spawned has run its
\* wg.Done(), no admitted connection is still waiting for its handler, and
\* none is spawned later.
C29_WaitSeesEveryAdmittedHandler ==
    /\ [](PastBarrier => acceptPc \notin {"chklimit", "add"})
    /\ [](tcpDone => tcpWg = 0 /\ BeforeDone = {} /\ acceptPc # "inc")
    /\ [][PastBarrier => tcpWg' <= tcpWg]_vars
    /\ [][tcpDone => \A k \in Conns : handler[k] = "none"
                                          => handler'[k] = "none"]_vars

\* The waiting goroutine has seen the waitgroup empty after the handler of a
\* connection, admitted while Shutdown had already set the flag, ran to its
\* end; a later connection was refused.
C29_Witness ==
    /\ tcpDone
    /\ \E k, j \in Conns :
           handler[k] = "done" /\ conn[j] = "refused"

\* The order of the positions of a Shutdown call.
ShutdownRank(pc) ==
    CASE pc = "idle" -> 0
      [] pc = "once" -> 1
      [] pc = "flag" -> 2
      [] pc = "close" -> 3
      [] pc = "rlock" -> 4
      [] pc = "lclose" -> 5
      [] pc = "range" -> 6
      [] pc = "barrier" -> 7
      [] pc = "spawn" -> 8
      [] pc = "select" -> 9
      [] pc = "mkerr" -> 10
      [] pc = "exit" -> 11
      [] pc = "returned" -> 12

\* C30: whatever the number of Shutdown calls, the steps of the once body
\* are run by one call only, each at most once and in order; the shutdown
\* channel is open when that call closes it and the listener is open when
\* it closes it, no other step closes either, and a connection is
\* force-closed at most once; a later call returns only after the body has
\* finished.
C30_ShutdownBodyRunsOnce ==
    /\ [](/\ \A c \in Calls \ {FirstCall} : tsPc[c] \in {"idle", "returned"}
          /\ tsPc[FirstCall] = "close" => ~tcpShutdown
          /\ tsPc[FirstCall] = "lclose" /\ tsListener => socket = "open"
          /\ \A k \in Conns : closes[k] <= 2
          /\ \A c \in Calls \ {FirstCall} :
                 tsPc[c] = "returned" =>
                     tcpShutdownOnce = "done" /\ tsPc[FirstCall] = "returned")
    /\ [][/\ tsPc'[FirstCall] # tsPc[FirstCall]
               => ShutdownRank(tsPc'[FirstCall]) > ShutdownRank(tsPc[FirstCall])
          /\ tcpShutdown => tcpShutdown'
          /\ tcpShutdown' /\ ~tcpShutdown => tsPc[FirstCall] = "close"
          /\ socket' = "closed" /\ socket # "closed"
               => tsPc[FirstCall] = "lclose"
          /\ socket = "closed" => socket' = "closed"
          /\ tcpShuttingDown' # tcpShuttingDown => tsPc[FirstCall] = "flag"]_vars

\* Both Shutdown calls have returned; the body ran with a listener to close
\* and a tracked connection to force-close.
C30_Witness ==
    /\ \A c \in Calls : tsPc[c] = "returned"
    /\ tcpShutdown /\ socket = "closed"
    /\ \E k \in Conns : closes[k] = 2

----------------------------------------------------------------------------
\* The shutdown flag and the accept loop's exits

\* C31: whenever the shutdown channel is closed the shuttingDown flag is
\* already 1: the channel is closed only when the flag is 1 and the flag is
\* never reset, so an accept loop that finds the channel closed, at the top
\* of the loop or after an Accept error, finds the flag set too.
C31_FlagSetBeforeChannelClosed ==
    /\ [](tcpShutdown => tcpShuttingDown = 1)
    /\ [][/\ tcpShutdown' /\ ~tcpShutdown => tcpShuttingDown = 1
          /\ tcpShuttingDown = 1 => tcpShuttingDown' = 1
          /\ acceptPc \in {"select", "accepterr"} /\ acceptPc' = "returned"
                 /\ tcpStartRet' = "nil"
               => tcpShuttingDown = 1]_vars

\* The accept loop found the channel closed and Start returned nil, with no
\* connection refused on the way.
C31_Witness ==
    /\ tcpShutdown /\ tcpShuttingDown = 1
    /\ acceptPc = "returned" /\ tcpStartRet = "nil"
    /\ \A k \in Conns : conn[k] # "refused"
    /\ \E k \in Conns : conn[k] = "dispatched"

\* C32: when the accept loop, holding a connection Accept just returned,
\* reads the shutdown flag as 1 under the mutex, it releases the mutex,
\* closes that connection once and Start returns nil; no handler is spawned
\* for the connection, and neither step changes the waitgroup counter,
\* s.activeConns or the connection map.
C32_RefusedWhenFlagSet ==
    /\ [](/\ acceptPc \in {"chkflag", "refuse"} =>
                /\ accepted \in Conns
                /\ conn[accepted] = "held"
                /\ handler[accepted] = "none"
                /\ closes[accepted] = 0
          /\ acceptPc = "refuse" => tcpShuttingDown = 1 /\ tcpMu = "free"
          /\ \A k \in Conns : conn[k] = "refused" =>
                /\ handler[k] = "none"
                /\ closes[k] = 1
                /\ acceptPc = "returned" /\ tcpStartRet = "nil")
    /\ [][/\ acceptPc = "chkflag" /\ acceptPc' # "chkflag"
                 /\ tcpShuttingDown = 1
               => /\ acceptPc' = "refuse" /\ tcpMu' = "free"
                  /\ UNCHANGED <<tcpWg, tcpActiveConns, tcpConnections,
                                 handler, closes>>
          /\ acceptPc = "refuse" /\ acceptPc' # "refuse"
               => /\ acceptPc' = "returned" /\ tcpStartRet' = "nil"
                  /\ conn'[accepted] = "refused"
                  /\ closes'[accepted] = 1
                  /\ UNCHANGED <<tcpWg, tcpActiveConns, tcpConnections,
                                 handler, tcpMu>>]_vars

\* A connection was refused while the handler of an earlier connection was
\* still counted in the waitgroup.
C32_Witness ==
    /\ \E k \in Conns : conn[k] = "refused"
    /\ \E j \in Conns : conn[j] = "dispatched" /\ handler[j] # "done"
    /\ acceptPc = "returned" /\ tcpStartRet = "nil"
    /\ tcpWg = 1

\* C33: when the accept loop finds s.activeConns at the ceiling it releases
\* the mutex, closes the connection once and goes back to the top of the
\* loop: no handler is spawned for the connection, neither step changes
\* s.activeConns, the waitgroup counter or the connection map, Start does
\* not return, and Accept can still return a connection while s.activeConns
\* is at the ceiling.
C33_RejectedAtCeiling ==
    /\ [](/\ acceptPc = "reject" =>
                /\ accepted \in Conns
                /\ conn[accepted] = "held"
                /\ handler[accepted] = "none"
                /\ closes[accepted] = 0
                /\ tcpMu = "free"
          /\ \A k \in Conns : conn[k] = "rejected" =>
                handler[k] = "none" /\ closes[k] = 1
          /\ (/\ acceptPc = "accept" /\ socket = "open"
              /\ \E k \in Conns : conn[k] = "idle")
                 => ENABLED (\E k \in Conns : AcceptConn(k)))
    /\ [][/\ acceptPc = "chklimit" /\ acceptPc' # "chklimit"
                 /\ tcpActiveConns >= maxTCPConnections
               => /\ acceptPc' = "reject" /\ tcpMu' = "free"
                  /\ UNCHANGED <<tcpWg, tcpActiveConns, tcpConnections,
                                 handler, closes, tcpStartRet>>
          /\ acceptPc = "reject" /\ acceptPc' # "reject"
               => /\ acceptPc' = "select"
                  /\ conn'[accepted] = "rejected"
                  /\ closes'[accepted] = 1
                  /\ UNCHANGED <<tcpWg, tcpActiveConns, tcpConnections,
                                 handler, tcpMu, tcpStartRet, socket>>]_vars

\* A connection was rejected at the ceiling and the loop is in Accept again,
\* with s.activeConns still at the ceiling.
C33_Witness ==
    /\ \E k \in Conns : conn[k] = "rejected"
    /\ acceptPc = "accept" /\ socket = "open"
    /\ tcpActiveConns = maxTCPConnections
    /\ tcpStartRet = "none"

\* C34: after an Accept error that is not a timeout, Start returns nil when
\* the shutdown channel is closed and otherwise goes back to the top of the
\* loop without returning; an Accept timeout goes back to the top of the
\* loop; Start never returns from Accept or from the error branch unless
\* the shutdown channel is closed, and nothing but a connection, a timeout
\* or an error leaves Accept.
C34_AcceptErrorsKeepListening ==
    [][/\ acceptPc = "accepterr" /\ acceptPc' # "accepterr"
            => IF tcpShutdown
               THEN acceptPc' = "returned" /\ tcpStartRet' = "nil"
               ELSE acceptPc' = "select" /\ tcpStartRet' = tcpStartRet
       /\ acceptPc = "accept" /\ acceptPc' # "accept"
            => /\ acceptPc' \in {"select", "accepterr", "lock"}
               /\ tcpStartRet' = tcpStartRet
               /\ acceptPc' = "select" => UNCHANGED <<accepted, conn, socket>>
       /\ acceptPc \in {"accept", "accepterr"} /\ acceptPc' = "returned"
            => tcpShutdown /\ tcpShuttingDown = 1]_vars

\* Accept failed with an error other than a timeout on an open listener
\* while no shutdown was signalled and the context was not cancelled, after a
\* connection had been dispatched.
C34_Witness ==
    /\ acceptPc = "accepterr"
    /\ ~tcpShutdown /\ tcpShuttingDown = 0 /\ ~tcpCtx
    /\ socket = "open"
    /\ \E k \in Conns : conn[k] = "dispatched"

----------------------------------------------------------------------------
\* The HTTP listener's counter of active connections

\* The requests that passed the limit test of the middleware and whose
\* wrapped handler has not returned.
Admitted == {r \in Reqs : req[r] \in {"add", "handler"}}

\* The requests between the increment and the decrement of s.activeConns.
Counted == {r \in Reqs : req[r] \in {"handler", "dec"}}

\* C35 (as stated): s.activeConns always equals the number of requests that
\* the middleware admitted and whose wrapped handler has not yet returned.
C35_ActiveConnsIsAdmittedCount == httpActiveConns = Cardinality(Admitted)

\* C35 (amended): s.activeConns always equals the number of requests between
\* their increment and their deferred decrement, so it differs from the
\* number of admitted requests still in the wrapped handler by the requests
\* that passed the limit test and have not incremented yet and by those
\* whose handler ended and have not decremented yet; an admitted request
\* increments it once and decrements it once, a rejected request leaves it
\* as it was, nothing else changes it, it is never negative and it is 0
\* when no request is in the middleware.
C35_ActiveConnsIsCountedRequests ==
    /\ [](/\ httpActiveConns = Cardinality(Counted)
          /\ httpActiveConns >= 0
          /\ httpActiveConns = Cardinality(Admitted)
                - Cardinality({r \in Reqs : req[r] = "add"})
                + Cardinality({r \in Reqs : req[r] = "dec"})
          /\ (\A r \in Reqs : req[r] \in {"idle", "rejected", "done"})
                => httpActiveConns = 0)
    /\ [][/\ \A r \in Reqs :
               /\ req[r] = "add" /\ req'[r] # "add"
                    => req'[r] = "handler"
                       /\ httpActiveConns' = httpActiveConns + 1
               /\ req[r] = "dec" /\ req'[r] # "dec"
                    => req'[r] = "done"
                       /\ httpActiveConns' = httpActiveConns - 1
               /\ req'[r] = "rejected" /\ req[r] # "rejected"
                    => httpActiveConns' = httpActiveConns
               /\ req[r] \in {"rejected", "done"} => req'[r] = req[r]
          /\ httpActiveConns' # httpActiveConns
               => \E r \in Reqs : req[r] \in {"add", "dec"} /\ req'[r] # req[r]]_vars

\* One request was admitted and has run its decrement, another was
\* rejected with 503 meanwhile, and the counter is back at 0.
C35_Witness ==
    /\ \E r \in Reqs : req[r] = "done"
    /\ \E r \in Reqs : req[r] = "rejected"
    /\ httpActiveConns = 0

----------------------------------------------------------------------------
\* The shutdown tasks of Manager.Shutdown

\* C36: Manager.Shutdown invokes the listeners' Shutdown in parallel: its
\* loop spawns the task of the next listener without waiting for any task,
\* and a spawned task can call its listener's Shutdown whatever the state of
\* the other tasks; and a Manager.Shutdown call is past shutdownWg.Wait(),
\* and so has returned, only when the Shutdown of every registered listener,
\* the slowest included, has returned and its task has ended.
C36_ShutdownsRunInParallel ==
    \A c \in Calls :
        /\ (~panicked /\ shPc[c] = "loop" /\ shIdx[c] <= Len(servers))
               => ENABLED ShutdownLoop(c)
        /\ \A i \in Listeners :
               (~panicked /\ shTask[c][i] = "spawned")
                   => ENABLED ShTaskCall(c, i)
        /\ shPc[c] \in {"select", "returned"} =>
               \A i \in Registered :
                   /\ shTask[c][i] = "done"
                   /\ shRet[c][i] \in ShutdownResults
                   /\ shutdownCalled[i] >= 1

\* Manager.Shutdown has returned, within its deadline, after the Shutdown of
\* two listeners returned.
C36_Witness ==
    /\ Len(servers) >= 2
    /\ shPc[1] = "returned" /\ ~ctxDone[1]
    /\ \A i \in Registered : shTask[1][i] = "done"

----------------------------------------------------------------------------
\* The three counts of the TCP listener

\* The connections whose handler has stored its entry in s.connections and
\* has not deleted it.
Registering == {k \in Conns : handler[k] \in {"run", "written", "closed"}}

\* C37: the number of entries of the connection map is at most
\* s.activeConns, which is at most the waitgroup counter, and none is
\* negative; the map holds exactly the connections of the handlers between
\* their Store and their Delete, s.activeConns counts exactly the handlers
\* that have not run their decrement, so a handler registers only after the
\* increment and deletes its entry and decrements before its wg.Done(); and
\* all three are 0 whenever the waitgroup counter is 0.
C37_MapWithinActiveWithinWaitgroup ==
    /\ [](/\ 0 <= Cardinality(tcpConnections)
          /\ Cardinality(tcpConnections) <= tcpActiveConns
          /\ tcpActiveConns <= tcpWg
          /\ tcpConnections = Registering
          /\ tcpActiveConns = Cardinality(InFlight)
          /\ tcpWg = 0 => tcpActiveConns = 0 /\ tcpConnections = {})
    /\ [][\A k \in Conns :
            /\ k \in tcpConnections' /\ k \notin tcpConnections
                 => handler[k] = "store" /\ k \in InFlight
            /\ handler'[k] = "done" /\ handler[k] # "done"
                 => /\ k \notin tcpConnections /\ k \notin InFlight
                    /\ tcpWg' = tcpWg - 1
                    /\ UNCHANGED <<tcpActiveConns, tcpConnections>>]_vars

\* The three counts differ: one handler has decremented s.activeConns and not
\* yet run wg.Done(), and the handler of the next connection is counted and
\* has not registered yet.
C37_Witness ==
    /\ Cardinality(tcpConnections) = 0
    /\ tcpActiveConns = 1
    /\ tcpWg = 2
    /\ \E k \in Conns : handler[k] = "decd"

----------------------------------------------------------------------------
\* The fate of an accepted connection

\* C38: every connection that Accept returned is eventually closed by the
\* server: a connection rejected at the ceiling or refused under the
\* shutdown flag has been closed by the accept loop, a connection whose
\* handler is past TCPHandler has been closed by it, and a connection held
\* by the accept loop or dispatched to a handler is closed later, whether or
\* not Shutdown's walk of the connection map found it.
C38_AcceptedConnectionsGetClosed ==
    /\ [](\A k \in Conns :
            /\ conn[k] \in {"rejected", "refused"} => closes[k] = 1
            /\ handler[k] \in {"closed", "deleted", "decd", "done"}
                  => closes[k] >= 1
            /\ conn[k] = "idle" => closes[k] = 0)
    /\ \A k \in Conns : (conn[k] # "idle") ~> (closes[k] >= 1)

\* Shutdown has walked the connection map while the handler of an admitted
\* connection had not registered yet: the walk did not close it.
C38_Witness ==
    /\ tsPc[FirstCall] \in {"barrier", "spawn", "select", "exit", "returned"}
    /\ \E k \in Conns :
          /\ conn[k] = "dispatched" /\ handler[k] = "store"
          /\ closes[k] = 0

----------------------------------------------------------------------------
\* The errors channel of Manager.Shutdown

\* The shutdown tasks of call c that have sent their listener's error.
Senders(c) ==
    {i \in Listeners : shTask[c][i] = "done" /\ shRet[c][i] # "nil"}

\* C39: in Manager.Shutdown a shutdown task that is about to send finds the
\* errors channel open and not full, so its send neither panics nor blocks;
\* each task sends at most one error, and the channel, whose capacity is the
\* number of registered listeners, holds one error per task that has sent;
\* the channel is closed only after every task has ended, and the drain loop
\* then reads every error that was sent.
C39_ErrorsChannelNeverBlocks ==
    \A c \in Calls :
        /\ \A i \in Listeners :
              shTask[c][i] = "returned" =>
                  /\ ~errorsClosed[c]
                  /\ Len(errors[c]) < Len(servers)
                  /\ ~panicked => ENABLED ShTaskFinish(c, i)
        /\ ~errorsClosed[c] =>
              /\ Len(errors[c]) = Cardinality(Senders(c))
              /\ ErrorSet(errors[c]) =
                     {ShutdownError(i, shRet[c][i]) : i \in Senders(c)}
              /\ errs[c] = <<>>
        /\ Len(errors[c]) <= Len(servers)
        /\ errorsClosed[c] =>
              /\ \A i \in Registered : shTask[c][i] = "done"
              /\ errors[c] = <<>>
              /\ Len(errs[c]) = Cardinality(Senders(c))
              /\ ErrorSet(errs[c]) =
                     {ShutdownError(i, shRet[c][i]) : i \in Senders(c)}

\* Every listener's task has sent an error, the channel was filled to its
\* capacity, then closed and drained.
C39_Witness ==
    /\ Len(servers) >= 2
    /\ errorsClosed[1]
    /\ Len(errs[1]) = Len(servers)
    /\ Senders(1) = Registered

----------------------------------------------------------------------------
\* The mutex of the TCP listener

\* The positions of the accept loop inside its critical section.
InCriticalSection == acceptPc \in {"chkflag", "chklimit", "add"}

\* C40: the accept loop holds the mutex exactly while it is inside its
\* critical section, where it can always take its next step: it does not
\* hold it in Accept, while it closes a refused or rejected connection, at
\* the top of the loop or when Start has returned, and every step out of the
\* critical section releases it; nothing else keeps the mutex over a step;
\* hence a Shutdown that waits for the mutex, for its read of the listener
\* or for its barrier, eventually gets past its barrier.
C40_MutexNeverDeadlocks ==
    /\ [](/\ tcpMu \in {"free", "start"}
          /\ tcpMu = "start" <=> InCriticalSection
          /\ InCriticalSection => ENABLED TcpStartSteps)
    /\ [][InCriticalSection /\ ~InCriticalSection' => tcpMu' = "free"]_vars
    /\ (tsPc[FirstCall] \in {"rlock", "lclose", "range", "barrier"})
           ~> PastBarrier

\* Shutdown is at its barrier while the accept loop is inside its critical
\* section with a connection in hand, after an earlier connection was
\* dispatched.
C40_Witness ==
    /\ tsPc[FirstCall] = "barrier"
    /\ tcpMu = "start" /\ acceptPc = "chkflag"
    /\ accepted \in Conns
    /\ \E k \in Conns : conn[k] = "dispatched"
====
